---- MODULE Spec2Model ----
(***************************************************************************)
(* ProxyFlow: a forward HTTP/HTTPS proxy that relays client requests       *)
(* through a round-robin pool of upstream proxies.                         *)
(*                                                                         *)
(* Byte strings are sequences of byte values (ASCII codes); the literals   *)
(* below are the byte strings the source writes out verbatim.              *)
(***************************************************************************)
EXTENDS Integers, Sequences, FiniteSets, TLC

\* ------------------------------------------------------------------ strings

\* the empty string ""
Empty == <<>>

\* "Basic "  (auth.go: basicPrefix)
BasicPrefix == <<66, 97, 115, 105, 99, 32>>

\* "CONNECT "
ConnectPrefix == <<67, 79, 78, 78, 69, 67, 84, 32>>

\* "proxy-authorization:"
ProxyAuthorizationColon == <<112, 114, 111, 120, 121, 45, 97, 117, 116, 104, 111, 114, 105, 122, 97, 116, 105, 111, 110, 58>>

\* "proxy-authorization"
ProxyAuthorization == <<112, 114, 111, 120, 121, 45, 97, 117, 116, 104, 111, 114, 105, 122, 97, 116, 105, 111, 110>>

\* "proxy-connection"
ProxyConnection == <<112, 114, 111, 120, 121, 45, 99, 111, 110, 110, 101, 99, 116, 105, 111, 110>>

\* "content-length"
ContentLength == <<99, 111, 110, 116, 101, 110, 116, 45, 108, 101, 110, 103, 116, 104>>

\* "HTTP/1.1 400 Bad Request\r\n\r\n"
BadRequest == <<72, 84, 84, 80, 47, 49, 46, 49, 32, 52, 48, 48, 32, 66, 97, 100, 32, 82, 101, 113, 117, 101, 115, 116, 13, 10, 13, 10>>

\* "HTTP/1.1 502 Bad Gateway\r\n\r\n"
BadGateway == <<72, 84, 84, 80, 47, 49, 46, 49, 32, 53, 48, 50, 32, 66, 97, 100, 32, 71, 97, 116, 101, 119, 97, 121, 13, 10, 13, 10>>

\* "HTTP/1.1 200 Connection Established\r\n\r\n"
ConnectionEstablished == <<72, 84, 84, 80, 47, 49, 46, 49, 32, 50, 48, 48, 32, 67, 111, 110, 110, 101, 99, 116, 105, 111, 110, 32, 69, 115, 116, 97, 98, 108, 105, 115, 104, 101, 100, 13, 10, 13, 10>>

\* "HTTP/1.1 407 Proxy Authentication Required\r\nProxy-Authenticate: Basic realm=\"ProxyFlow\"\r\n\r\n"
AuthRequired == <<72, 84, 84, 80, 47, 49, 46, 49, 32, 52, 48, 55, 32, 80, 114, 111, 120, 121, 32, 65, 117, 116, 104, 101, 110, 116, 105, 99, 97, 116, 105, 111, 110, 32, 82, 101, 113, 117, 105, 114, 101, 100, 13, 10, 80, 114, 111, 120, 121, 45, 65, 117, 116, 104, 101, 110, 116, 105, 99, 97, 116, 101, 58, 32, 66, 97, 115, 105, 99, 32, 114, 101, 97, 108, 109, 61, 34, 80, 114, 111, 120, 121, 70, 108, 111, 119, 34, 13, 10, 13, 10>>

\* "HTTP/1.1 "
HTTP11 == <<72, 84, 84, 80, 47, 49, 46, 49, 32>>

\* " HTTP/1.1\r\nHost: "
ProbeHost == <<32, 72, 84, 84, 80, 47, 49, 46, 49, 13, 10, 72, 111, 115, 116, 58, 32>>
\* "Proxy-Connection: Keep-Alive\r\n" "Content-Length: 0\r\n"
ProbeFixedHeaders == <<80, 114, 111, 120, 121, 45, 67, 111, 110, 110, 101, 99, 116, 105, 111, 110, 58, 32, 75, 101, 101, 112, 45, 65, 108, 105, 118, 101, 13, 10, 67, 111, 110, 116, 101, 110, 116, 45, 76, 101, 110, 103, 116, 104, 58, 32, 48, 13, 10>>
\* "Proxy-Authorization: "
ProbeAuthorization == <<80, 114, 111, 120, 121, 45, 65, 117, 116, 104, 111, 114, 105, 122, 97, 116, 105, 111, 110, 58, 32>>
\* ":443"  (":" + DefaultHTTPSPort)
DefaultPortSuffix == <<58, 52, 52, 51>>
\* "\r\n"
CRLF == <<13, 10>>

\* ": "
ColonSpace == <<58, 32>>

\* "200"
Lit200 == <<50, 48, 48>>

\* s[from:]  (Go slice expression, 0-based `from`, from <= len(s))
Drop(s, from) == SubSeq(s, from + 1, Len(s))

\* s[:to]
Take(s, to) == SubSeq(s, 1, to)

\* strings.HasPrefix
HasPrefix(s, prefix) ==
    /\ Len(s) >= Len(prefix)
    /\ Take(s, Len(prefix)) = prefix

\* strings.Contains
Contains(s, sub) ==
    \E k \in 0..(Len(s) - Len(sub)) : SubSeq(s, k + 1, k + Len(sub)) = sub

\* strings.Index(s, ":")-style search for one byte: 0-based index, -1 if absent
IndexByte(s, b) ==
    IF \E k \in 1..Len(s) : s[k] = b
    THEN (CHOOSE k \in 1..Len(s) : s[k] = b /\ \A j \in 1..(k - 1) : s[j] # b) - 1
    ELSE -1

\* strings.LastIndex for one byte: 0-based index, -1 if absent
LastIndexByte(s, b) ==
    IF \E k \in 1..Len(s) : s[k] = b
    THEN (CHOOSE k \in 1..Len(s) : s[k] = b /\ \A j \in (k + 1)..Len(s) : s[j] # b) - 1
    ELSE -1

\* unicode.IsSpace on the ASCII range: \t \n \v \f \r and space
IsSpace(b) == b \in {9, 10, 11, 12, 13, 32}

\* strings.ToLower on the ASCII range
LowerByte(b) == IF b >= 65 /\ b <= 90 THEN b + 32 ELSE b
ToLower(s) == [k \in 1..Len(s) |-> LowerByte(s[k])]

\* strings.TrimSpace
TrimSpace(s) ==
    IF \A k \in 1..Len(s) : IsSpace(s[k])
    THEN Empty
    ELSE LET first == CHOOSE k \in 1..Len(s) :
                          ~IsSpace(s[k]) /\ \A j \in 1..(k - 1) : IsSpace(s[j])
             last  == CHOOSE k \in 1..Len(s) :
                          ~IsSpace(s[k]) /\ \A j \in (k + 1)..Len(s) : IsSpace(s[j])
         IN  SubSeq(s, first, last)

\* len(strings.Fields(s)): the number of maximal runs of non-space bytes
NumFields(s) ==
    Cardinality({k \in 1..Len(s) :
                    ~IsSpace(s[k]) /\ (k = 1 \/ IsSpace(s[k - 1]))})

\* strings.Fields(s)[n], n 0-based and below NumFields(s)
Field(s, n) ==
    LET starts == {k \in 1..Len(s) : ~IsSpace(s[k]) /\ (k = 1 \/ IsSpace(s[k - 1]))}
        begin  == CHOOSE k \in starts : Cardinality({j \in starts : j < k}) = n
        end    == CHOOSE k \in begin..Len(s) :
                      /\ \A j \in begin..k : ~IsSpace(s[j])
                      /\ (k = Len(s) \/ IsSpace(s[k + 1]))
    IN  SubSeq(s, begin, end)

\* ------------------------------------------------------------------ base64

\* encoding/base64 StdEncoding: the alphabet A-Z a-z 0-9 + /, padding '='
PadChar == 61

B64Char(v) ==
    IF v < 26 THEN 65 + v
    ELSE IF v < 52 THEN 97 + (v - 26)
    ELSE IF v < 62 THEN 48 + (v - 52)
    ELSE IF v = 62 THEN 43
    ELSE 47

\* the decode map: the 6-bit value of an alphabet byte, -1 for any other byte
B64Value(b) ==
    IF b >= 65 /\ b <= 90 THEN b - 65
    ELSE IF b >= 97 /\ b <= 122 THEN b - 71
    ELSE IF b >= 48 /\ b <= 57 THEN b + 4
    ELSE IF b = 43 THEN 62
    ELSE IF b = 47 THEN 63
    ELSE -1

RECURSIVE B64Encode(_)
\* base64.StdEncoding.EncodeToString
B64Encode(src) ==
    IF Len(src) = 0 THEN Empty
    ELSE IF Len(src) = 1 THEN
        LET v == src[1] * 65536
        IN  <<B64Char(v \div 262144), B64Char((v \div 4096) % 64), PadChar, PadChar>>
    ELSE IF Len(src) = 2 THEN
        LET v == src[1] * 65536 + src[2] * 256
        IN  <<B64Char(v \div 262144), B64Char((v \div 4096) % 64),
              B64Char((v \div 64) % 64), PadChar>>
    ELSE
        LET v == src[1] * 65536 + src[2] * 256 + src[3]
        IN  <<B64Char(v \div 262144), B64Char((v \div 4096) % 64),
              B64Char((v \div 64) % 64), B64Char(v % 64)>> \o B64Encode(Drop(src, 3))

RECURSIVE B64DecodeQuanta(_)
\* the quanta loop of base64.StdEncoding.DecodeString (padded, not strict):
\* [err |-> TRUE] or [err |-> FALSE, bytes |-> ...]
B64DecodeQuanta(s) ==
    IF Len(s) = 0 THEN [err |-> FALSE, bytes |-> Empty]
    ELSE IF Len(s) < 4 THEN [err |-> TRUE, bytes |-> Empty]
    ELSE
        LET c0 == B64Value(s[1])
            c1 == B64Value(s[2])
            c2 == B64Value(s[3])
            c3 == B64Value(s[4])
        IN  IF c0 < 0 \/ c1 < 0 THEN [err |-> TRUE, bytes |-> Empty]
            ELSE IF c2 < 0 THEN
                \* "xx==" ends the input
                IF s[3] = PadChar /\ s[4] = PadChar /\ Len(s) = 4
                THEN [err |-> FALSE,
                      bytes |-> <<(c0 * 262144 + c1 * 4096) \div 65536>>]
                ELSE [err |-> TRUE, bytes |-> Empty]
            ELSE IF c3 < 0 THEN
                \* "xxx=" ends the input
                IF s[4] = PadChar /\ Len(s) = 4
                THEN LET v == c0 * 262144 + c1 * 4096 + c2 * 64
                     IN  [err |-> FALSE,
                          bytes |-> <<v \div 65536, (v \div 256) % 256>>]
                ELSE [err |-> TRUE, bytes |-> Empty]
            ELSE
                LET v    == c0 * 262144 + c1 * 4096 + c2 * 64 + c3
                    rest == B64DecodeQuanta(Drop(s, 4))
                IN  IF rest.err THEN [err |-> TRUE, bytes |-> Empty]
                    ELSE [err |-> FALSE,
                          bytes |-> <<v \div 65536, (v \div 256) % 256, v % 256>>
                                    \o rest.bytes]

\* the decoder ignores '\r' and '\n' wherever they stand
NotNewline(b) == b # 13 /\ b # 10

\* base64.StdEncoding.DecodeString: [err |-> TRUE] or [err |-> FALSE, bytes |-> ...]
B64Decode(s) == B64DecodeQuanta(SelectSeq(s, NotNewline))

\* ------------------------------------------------------------------ auth

\* auth.EncodeBasicAuth
EncodeBasicAuth(username, password) ==
    IF username = Empty THEN Empty
    ELSE BasicPrefix \o B64Encode(username \o <<58>> \o password)

\* a decoder that keeps the ':' in the password
DecodeBasicAuth_OffByOne(authHeader) ==
    LET fail == [err |-> TRUE, username |-> Empty, password |-> Empty]
    IN  IF authHeader = Empty THEN fail
        ELSE IF ~HasPrefix(authHeader, BasicPrefix) THEN fail
        ELSE LET decoded == B64Decode(Drop(authHeader, Len(BasicPrefix)))
             IN  IF decoded.err THEN fail
                 ELSE LET colon == IndexByte(decoded.bytes, 58)
                      IN  IF colon < 0 THEN fail
                          ELSE [err      |-> FALSE,
                                username |-> Take(decoded.bytes, colon),
                                password |-> Drop(decoded.bytes, colon)]

\* a decoder that splits at the last ':'
DecodeBasicAuth_LastColon(authHeader) ==
    LET fail == [err |-> TRUE, username |-> Empty, password |-> Empty]
    IN  IF authHeader = Empty THEN fail
        ELSE IF ~HasPrefix(authHeader, BasicPrefix) THEN fail
        ELSE LET decoded == B64Decode(Drop(authHeader, Len(BasicPrefix)))
             IN  IF decoded.err THEN fail
                 ELSE LET colon == LastIndexByte(decoded.bytes, 58)
                      IN  IF colon < 0 THEN fail
                          ELSE [err      |-> FALSE,
                                username |-> Take(decoded.bytes, colon),
                                password |-> Drop(decoded.bytes, colon + 1)]

\* a decoder that does not look at the prefix
DecodeBasicAuth_AnyPrefix(authHeader) ==
    LET fail == [err |-> TRUE, username |-> Empty, password |-> Empty]
    IN  IF authHeader = Empty THEN fail
        ELSE LET decoded == B64Decode(Drop(authHeader, Len(BasicPrefix)))
             IN  IF decoded.err THEN fail
                 ELSE LET colon == IndexByte(decoded.bytes, 58)
                      IN  IF colon < 0 THEN fail
                          ELSE [err      |-> FALSE,
                                username |-> Take(decoded.bytes, colon),
                                password |-> Drop(decoded.bytes, colon + 1)]

\* auth.DecodeBasicAuth: [err, username, password]
DecodeBasicAuth(authHeader) ==
    LET fail == [err |-> TRUE, username |-> Empty, password |-> Empty]
    IN  IF authHeader = Empty THEN fail
        ELSE IF ~HasPrefix(authHeader, BasicPrefix) THEN fail
        ELSE LET decoded == B64Decode(Drop(authHeader, Len(BasicPrefix)))
             IN  IF decoded.err THEN fail
                 ELSE LET colon == IndexByte(decoded.bytes, 58)
                      IN  IF colon < 0 THEN fail
                          ELSE [err      |-> FALSE,
                                username |-> Take(decoded.bytes, colon),
                                password |-> Drop(decoded.bytes, colon + 1)]

\* ------------------------------------------------------------------ inputs

\* "CONNECT h:1 HTTP/1.1\r\n"
LineConnect == <<67, 79, 78, 78, 69, 67, 84, 32, 104, 58, 49, 32, 72, 84, 84, 80, 47, 49, 46, 49, 13, 10>>
\* "CONNECT \r\n"
LineConnectShort == <<67, 79, 78, 78, 69, 67, 84, 32, 13, 10>>
\* "GET http://h/ HTTP/1.1\r\n"
LineGet == <<71, 69, 84, 32, 104, 116, 116, 112, 58, 47, 47, 104, 47, 32, 72, 84, 84, 80, 47, 49, 46, 49, 13, 10>>
\* "GET /\r\n"
LineGetShort == <<71, 69, 84, 32, 47, 13, 10>>
\* "GET http://h/%zz HTTP/1.1\r\n"
LineBadURL == <<71, 69, 84, 32, 104, 116, 116, 112, 58, 47, 47, 104, 47, 37, 122, 122, 32, 72, 84, 84, 80, 47, 49, 46, 49, 13, 10>>
\* "Proxy-Authorization: "
HdrProxyAuthorization == <<80, 114, 111, 120, 121, 45, 65, 117, 116, 104, 111, 114, 105, 122, 97, 116, 105, 111, 110, 58, 32>>
\* "Content-Length: 2\r\n"
HdrContentLength2 == <<67, 111, 110, 116, 101, 110, 116, 45, 76, 101, 110, 103, 116, 104, 58, 32, 50, 13, 10>>
\* "hi"
BodyHi == <<104, 105>>
\* "HTTP/1.1 200 OK\r\n\r\n"
ChunkEstablished == <<72, 84, 84, 80, 47, 49, 46, 49, 32, 50, 48, 48, 32, 79, 75, 13, 10, 13, 10>>
\* "HTTP/1.1 200 OK\r\n\r\nok": the reply and the first tunnel bytes in one chunk
ChunkEstablishedData == <<72, 84, 84, 80, 47, 49, 46, 49, 32, 50, 48, 48, 32, 79, 75, 13, 10, 13, 10, 111, 107>>
\* "HTTP/1.1 403 Forbidden\r\n\r\n"
ChunkForbidden == <<72, 84, 84, 80, 47, 49, 46, 49, 32, 52, 48, 51, 32, 70, 111, 114, 98, 105, 100, 100, 101, 110, 13, 10, 13, 10>>
\* "HTTP/1.1 407 Proxy Authentication Required\r\nContent-Length: 200\r\n\r\n"
ChunkAuthLength200 == <<72, 84, 84, 80, 47, 49, 46, 49, 32, 52, 48, 55, 32, 80, 114, 111, 120, 121, 32, 65, 117, 116, 104, 101, 110, 116, 105, 99, 97, 116, 105, 111, 110, 32, 82, 101, 113, 117, 105, 114, 101, 100, 13, 10, 67, 111, 110, 116, 101, 110, 116, 45, 76, 101, 110, 103, 116, 104, 58, 32, 50, 48, 48, 13, 10, 13, 10>>
\* "HTTP/1.1 20": a reply whose status code is cut by the end of the chunk
ChunkCut == <<72, 84, 84, 80, 47, 49, 46, 49, 32, 50, 48>>
\* "HTTP/1.1 200": the start of a status line that reports success
StatusLine200 == <<72, 84, 84, 80, 47, 49, 46, 49, 32, 50, 48, 48>>
\* "200 OK"
StatusOK == <<50, 48, 48, 32, 79, 75>>
\* "200"
StatusBare == <<50, 48, 48>>
\* "Server"
KeyServer == <<83, 101, 114, 118, 101, 114>>
\* "ng"
ValNginx == <<110, 103>>
\* "Via"
KeyVia == <<86, 105, 97>>
\* "a"
ValA == <<97>>
\* "b"
ValB == <<98>>
\* "ok"
BodyOk == <<111, 107>>
\* "!!!!"
NotBase64 == <<33, 33, 33, 33>>
\* "u"
UserU == <<117>>
\* "u:v"
UserColon == <<117, 58, 118>>
\* "p"
PassP == <<112>>
\* "q"
PassQ == <<113>>
\* "p:q"
PassColon == <<112, 58, 113>>

\* the request lines a client sends first
FirstLines == {LineConnect, LineConnectShort, LineGet, LineGetShort, LineBadURL}

\* the server-side credentials (AUTH_USERNAME, AUTH_PASSWORD) of a deployment
NoAuth == [username |-> Empty, password |-> Empty]
AuthConfigs ==
    { NoAuth,
      [username |-> UserU, password |-> PassP],
      [username |-> UserU, password |-> PassColon],
      [username |-> UserU, password |-> Empty],
      [username |-> Empty, password |-> PassP],
      [username |-> UserColon, password |-> PassP] }

\* the Proxy-Authorization values a client presents (Empty: no such header)
AuthValues ==
    { Empty,
      EncodeBasicAuth(UserU, PassP),
      EncodeBasicAuth(UserU, PassQ),
      EncodeBasicAuth(UserU, PassColon),
      EncodeBasicAuth(UserU, Empty),
      EncodeBasicAuth(UserColon, PassP),
      BasicPrefix \o B64Encode(<<58>> \o PassP),
      BasicPrefix \o B64Encode(UserU \o PassP),
      BasicPrefix \o NotBase64,
      B64Encode(UserU \o <<58>> \o PassP) }

\* the header lines of a request, without the blank line that ends them
HeaderBlocks ==
    { (IF v = Empty THEN <<>> ELSE <<HdrProxyAuthorization \o v \o CRLF>>) \o cl :
        v \in AuthValues, cl \in {<<>>, <<HdrContentLength2>>} }

\* "Accept: a\r\n"
HdrAccept == <<65, 99, 99, 101, 112, 116, 58, 32, 97, 13, 10>>
\* "Via: a\r\n"
HdrViaA == <<86, 105, 97, 58, 32, 97, 13, 10>>
\* "Via: b\r\n"
HdrViaB == <<86, 105, 97, 58, 32, 98, 13, 10>>
\* "PROXY-Connection: keep-alive\r\n"
HdrProxyConnection == <<80, 82, 79, 88, 89, 45, 67, 111, 110, 110, 101, 99, 116, 105, 111, 110, 58, 32, 107, 101, 101, 112, 45, 97, 108, 105, 118, 101, 13, 10>>
\* "proxy-AUTHORIZATION: Basic dTpw\r\n"
HdrProxyAuthorizationMixed == <<112, 114, 111, 120, 121, 45, 65, 85, 84, 72, 79, 82, 73, 90, 65, 84, 73, 79, 78, 58, 32, 66, 97, 115, 105, 99, 32, 100, 84, 112, 119, 13, 10>>

\* "Content-Length: abc\r\n"
HdrContentLengthAbc == <<67, 111, 110, 116, 101, 110, 116, 45, 76, 101, 110, 103, 116, 104, 58, 32, 97, 98, 99, 13, 10>>
\* "Content-Length: -5\r\n"
HdrContentLengthNeg == <<67, 111, 110, 116, 101, 110, 116, 45, 76, 101, 110, 103, 116, 104, 58, 32, 45, 53, 13, 10>>
\* "Content-Length: 2x\r\n"
HdrContentLength2x == <<67, 111, 110, 116, 101, 110, 116, 45, 76, 101, 110, 103, 116, 104, 58, 32, 50, 120, 13, 10>>
\* "Content-Length: 1_0\r\n"
HdrContentLength1_0 == <<67, 111, 110, 116, 101, 110, 116, 45, 76, 101, 110, 103, 116, 104, 58, 32, 49, 95, 48, 13, 10>>

\* header blocks with ordinary headers, a repeated header, the proxy headers, and
\* Content-Length values that are and are not numbers
ForwardBlocks ==
    { <<HdrAccept>>,
      <<HdrContentLength2>>, <<HdrContentLengthAbc>>, <<HdrContentLengthNeg>>,
      <<HdrContentLength2x>>, <<HdrContentLength1_0>>,
      <<HdrAccept, HdrProxyConnection, HdrViaA>>,
      <<HdrProxyAuthorizationMixed, HdrAccept>>,
      <<HdrViaA, HdrViaB>>,
      <<HdrProxyAuthorizationMixed, HdrProxyConnection>> }

\* what an upstream answers to the CONNECT probe (the first chunk read)
UpstreamChunks ==
    {ChunkEstablished, ChunkEstablishedData, ChunkForbidden, ChunkAuthLength200, ChunkCut}

\* what an upstream answers to a forwarded request (http.Response)
NoResponse == [StatusCode |-> 0, Status |-> Empty, Header |-> <<>>, Body |-> Empty]
Responses ==
    { [StatusCode |-> 200, Status |-> StatusOK,
       Header |-> <<[key |-> KeyServer, values |-> <<ValNginx>>],
                    [key |-> KeyVia, values |-> <<ValA, ValB>>]>>,
       Body |-> BodyOk],
      [StatusCode |-> 200, Status |-> StatusBare,
       Header |-> <<[key |-> KeyServer, values |-> <<ValNginx>>]>>,
       Body |-> BodyOk] }

\* "407 Proxy Authentication Required"
Status407 == <<52, 48, 55, 32, 80, 114, 111, 120, 121, 32, 65, 117, 116, 104, 101, 110, 116, 105, 99, 97, 116, 105, 111, 110, 32, 82, 101, 113, 117, 105, 114, 101, 100>>
\* "502 Bad Gateway"
Status502 == <<53, 48, 50, 32, 66, 97, 100, 32, 71, 97, 116, 101, 119, 97, 121>>
\* "302 Found"
Status302 == <<51, 48, 50, 32, 70, 111, 117, 110, 100>>
\* "Location"
KeyLocation == <<76, 111, 99, 97, 116, 105, 111, 110>>
\* "http://h/x"
ValLocation == <<104, 116, 116, 112, 58, 47, 47, 104, 47, 120>>

\* an upstream proxy that refuses the request itself
Response407 ==
    [StatusCode |-> 407, Status |-> Status407, Header |-> <<>>, Body |-> Empty]
\* an upstream proxy that cannot reach the target
Response502 ==
    [StatusCode |-> 502, Status |-> Status502, Header |-> <<>>, Body |-> Empty]
\* a redirect
Response302 ==
    [StatusCode |-> 302, Status |-> Status302,
     Header |-> <<[key |-> KeyLocation, values |-> <<ValLocation>>]>>, Body |-> Empty]

\* what the upstreams of the server with one connection answer
UpstreamResponses == Responses \cup {Response407, Response502, Response302}

\* the connections of the model, in the order the accept loop takes them
Conns == {"c1", "c2"}
AcceptOrder == <<"c1", "c2">>

Nobody == "nobody"
Closer == "shutdown"

\* ------------------------------------------------------------------ pure parts of the handlers

IsDigit(b) == b >= 48 /\ b <= 57

RECURSIVE DigitsValue(_, _)
\* the number the leading decimal digits of s stand for, after acc
DigitsValue(s, acc) ==
    IF Len(s) = 0 \/ ~IsDigit(s[1]) THEN acc
    ELSE DigitsValue(Drop(s, 1), acc * 10 + (s[1] - 48))

\* fmt.Sscanf(value, "%d", &n) on a trimmed value of at most 9 digits: an optional
\* sign, then the longest run of decimal digits and '_' is the token, and what
\* follows it is left unread; it fails when the token is empty or holds a '_'
\* (strconv.ParseInt in base 10)
ScanInt(value) ==
    LET signed == Len(value) > 0 /\ value[1] \in {43, 45}
        rest   == IF signed THEN Drop(value, 1) ELSE value
        stops  == {k \in 1..Len(rest) : ~IsDigit(rest[k]) /\ rest[k] # 95}
        token  == IF stops = {} THEN rest
                  ELSE Take(rest, (CHOOSE k \in stops : \A j \in stops : k <= j) - 1)
    IN  IF token = Empty \/ IndexByte(token, 95) >= 0
        THEN [ok |-> FALSE, n |-> 0]
        ELSE [ok |-> TRUE,
              n  |-> IF signed /\ value[1] = 45 THEN 0 - DigitsValue(token, 0)
                     ELSE DigitsValue(token, 0)]

RECURSIVE Itoa(_)
\* the %d verb of fmt.Sprintf for n >= 0
Itoa(n) == IF n < 10 THEN <<48 + n>> ELSE Itoa(n \div 10) \o <<48 + (n % 10)>>

\* a map[string]string with one key set
Put(m, key, value) ==
    [k \in (DOMAIN m) \cup {key} |-> IF k = key THEN value ELSE m[k]]

RECURSIVE ConnectAuthHeader(_, _)
\* handleConnectTCP's header loop: the value of the last Proxy-Authorization line
ConnectAuthHeader(lines, authHeader) ==
    IF Len(lines) = 0 THEN authHeader
    ELSE ConnectAuthHeader(Tail(lines),
            IF HasPrefix(ToLower(Head(lines)), ProxyAuthorizationColon)
            THEN TrimSpace(Drop(Head(lines), Len(ProxyAuthorizationColon)))
            ELSE authHeader)

RECURSIVE HTTPHeaders(_, _)
\* handleHTTPTCP's header loop: the lowercase-keyed header map, the
\* Proxy-Authorization value and the Content-Length
HTTPHeaders(lines, acc) ==
    IF Len(lines) = 0 THEN acc
    ELSE
        LET line       == TrimSpace(Head(lines))
            colonIndex == IndexByte(line, 58)
            key        == ToLower(TrimSpace(Take(line, colonIndex)))
            value      == TrimSpace(Drop(line, colonIndex + 1))
            scanned    == ScanInt(value)
        IN  IF colonIndex > 0
            THEN HTTPHeaders(Tail(lines),
                    [headers       |-> Put(acc.headers, key, value),
                     authHeader    |-> IF key = ProxyAuthorization THEN value
                                       ELSE acc.authHeader,
                     contentLength |-> IF key = ProxyAuthorization THEN acc.contentLength
                                       ELSE IF key = ContentLength
                                       THEN (IF scanned.ok THEN scanned.n ELSE 0)
                                       ELSE acc.contentLength])
            ELSE HTTPHeaders(Tail(lines), acc)

NoHeaders == [headers |-> <<>>, authHeader |-> Empty, contentLength |-> 0]

\* url.Parse rejects a '%' that two hexadecimal digits do not follow
IsHex(b) == IsDigit(b) \/ (b >= 65 /\ b <= 70) \/ (b >= 97 /\ b <= 102)
InvalidEscape(url) ==
    \E k \in 1..Len(url) :
        /\ url[k] = 37
        /\ (k + 2 > Len(url) \/ ~IsHex(url[k + 1]) \/ ~IsHex(url[k + 2]))

\* http.NewRequest(method, url, body) returns an error
NewRequestFails(method, url) == InvalidEscape(url)

\* the outgoing request's headers: all but the proxy ones
ForwardedHeaders(headers) ==
    [k \in (DOMAIN headers) \ {ProxyAuthorization, ProxyConnection} |-> headers[k]]

\* ------------------------------------------------------------------ pool.parseProxy, NewPool

IsLetter(b) == (b >= 65 /\ b <= 90) \/ (b >= 97 /\ b <= 122)

\* the value of a hexadecimal digit
Unhex(b) == IF IsDigit(b) THEN b - 48 ELSE IF b >= 97 THEN b - 87 ELSE b - 55

RECURSIVE Unescape(_)
\* net/url unescape of a string without invalid escapes: an escape becomes one byte
Unescape(s) ==
    IF Len(s) = 0 THEN Empty
    ELSE IF Head(s) = 37
    THEN <<16 * Unhex(s[2]) + Unhex(s[3])>> \o Unescape(Drop(s, 3))
    ELSE <<Head(s)>> \o Unescape(Tail(s))

\* net/url getScheme: [err, scheme, rest]
GetScheme(rawURL) ==
    LET stops == {k \in 1..Len(rawURL) :
                     ~IsLetter(rawURL[k])
                     /\ ~(k > 1 /\ (IsDigit(rawURL[k]) \/ rawURL[k] \in {43, 45, 46}))}
        none  == [err |-> FALSE, scheme |-> Empty, rest |-> rawURL]
    IN  IF stops = {} THEN none
        ELSE LET k == CHOOSE x \in stops : \A y \in stops : x <= y
             IN  IF rawURL[k] # 58 THEN none
                 ELSE IF k = 1 THEN [err |-> TRUE, scheme |-> Empty, rest |-> Empty]
                 ELSE [err |-> FALSE, scheme |-> Take(rawURL, k - 1), rest |-> Drop(rawURL, k)]

\* net/url validOptionalPort
ValidOptionalPort(port) ==
    port = Empty \/ (port[1] = 58 /\ \A k \in 2..Len(port) : IsDigit(port[k]))

\* the bytes net/url accepts unescaped in a host
ValidHostByte(b) ==
    \/ IsLetter(b) \/ IsDigit(b) \/ b >= 128
    \/ b \in {45, 95, 46, 126, 33, 36, 38, 39, 40, 41, 42, 43, 44, 59, 61, 58, 91, 93,
              60, 62, 34, 37}

\* net/url validUserinfo
ValidUserinfo(s) ==
    \A k \in 1..Len(s) :
        \/ IsLetter(s[k]) \/ IsDigit(s[k])
        \/ s[k] \in {45, 46, 95, 58, 126, 33, 36, 38, 39, 40, 41, 42, 43, 44, 59, 61, 37, 64}

\* net/url parseAuthority for a host that is not an IPv6 literal:
\* [err, user (is there userinfo), username, password, host]
ParseAuthority(authority) ==
    LET at       == LastIndexByte(authority, 64)
        host     == IF at < 0 THEN authority ELSE Drop(authority, at + 1)
        userinfo == IF at < 0 THEN Empty ELSE Take(authority, at)
        colon    == LastIndexByte(host, 58)
        cut      == IndexByte(userinfo, 58)
        fail     == [err |-> TRUE, user |-> FALSE, username |-> Empty,
                     password |-> Empty, host |-> Empty]
    IN  IF colon >= 0 /\ ~ValidOptionalPort(Drop(host, colon)) THEN fail
        ELSE IF InvalidEscape(host) \/ \E k \in 1..Len(host) : ~ValidHostByte(host[k])
        THEN fail
        ELSE IF \E k \in 1..Len(host) :
                    host[k] = 37 /\ Unhex(host[k + 1]) < 8
                    /\ SubSeq(host, k, k + 2) # <<37, 50, 53>>
        THEN fail
        ELSE IF at < 0
        THEN [err |-> FALSE, user |-> FALSE, username |-> Empty, password |-> Empty,
              host |-> Unescape(host)]
        ELSE IF ~ValidUserinfo(userinfo) \/ InvalidEscape(userinfo) THEN fail
        ELSE [err      |-> FALSE,
              user     |-> TRUE,
              username |-> Unescape(IF cut < 0 THEN userinfo ELSE Take(userinfo, cut)),
              password |-> IF cut < 0 THEN Empty ELSE Unescape(Drop(userinfo, cut + 1)),
              host     |-> Unescape(host)]

\* url.Parse: [err, Scheme, User, Username, Password, Host]
URLParse(rawURL) ==
    LET hash     == IndexByte(rawURL, 35)
        u        == IF hash < 0 THEN rawURL ELSE Take(rawURL, hash)
        frag     == IF hash < 0 THEN Empty ELSE Drop(rawURL, hash + 1)
        got      == GetScheme(u)
        question == IndexByte(got.rest, 63)
        rest     == IF question < 0 THEN got.rest ELSE Take(got.rest, question)
        slash    == IndexByte(rest, 47)
        segment  == IF slash < 0 THEN rest ELSE Take(rest, slash)
        after    == Drop(rest, 2)
        cut      == IndexByte(after, 47)
        parsed   == ParseAuthority(IF cut < 0 THEN after ELSE Take(after, cut))
        path     == IF cut < 0 THEN Empty ELSE Drop(after, cut)
        fail     == [err |-> TRUE, Scheme |-> Empty, User |-> FALSE, Username |-> Empty,
                     Password |-> Empty, Host |-> Empty]
        bare     == [err |-> FALSE, Scheme |-> ToLower(got.scheme), User |-> FALSE,
                     Username |-> Empty, Password |-> Empty, Host |-> Empty]
    IN  IF \E k \in 1..Len(rawURL) : rawURL[k] < 32 \/ rawURL[k] = 127 THEN fail
        ELSE IF got.err THEN fail
        ELSE IF InvalidEscape(frag) THEN fail
        ELSE IF ~HasPrefix(rest, <<47>>)
        THEN IF got.scheme # Empty THEN bare
             ELSE IF IndexByte(segment, 58) >= 0 THEN fail
             ELSE IF InvalidEscape(rest) THEN fail
             ELSE bare
        ELSE IF HasPrefix(rest, <<47, 47>>)
                /\ (got.scheme # Empty \/ ~HasPrefix(rest, <<47, 47, 47>>))
        THEN IF parsed.err \/ InvalidEscape(path) THEN fail
             ELSE [err |-> FALSE, Scheme |-> ToLower(got.scheme), User |-> parsed.user,
                   Username |-> parsed.username, Password |-> parsed.password,
                   Host |-> parsed.host]
        ELSE IF InvalidEscape(rest) THEN fail
        ELSE bare

\* "http", "https"
SchemeHTTP == <<104, 116, 116, 112>>
SchemeHTTPS == <<104, 116, 116, 112, 115>>

\* Pool.parseProxy: [err, proxy]
ParseProxy(proxyStr) ==
    LET proxyURL == URLParse(proxyStr)
        none     == [scheme |-> Empty, host |-> Empty, username |-> Empty,
                     password |-> Empty]
    IN  IF proxyURL.err THEN [err |-> TRUE, proxy |-> none]
        ELSE IF proxyURL.Scheme # SchemeHTTP /\ proxyURL.Scheme # SchemeHTTPS
        THEN [err |-> TRUE, proxy |-> none]
        ELSE [err   |-> FALSE,
              proxy |-> [scheme   |-> proxyURL.Scheme,
                         host     |-> proxyURL.Host,
                         username |-> IF proxyURL.User THEN proxyURL.Username ELSE Empty,
                         password |-> IF proxyURL.User THEN proxyURL.Password ELSE Empty]]

\* the lines of a proxy list file: text, followed by pad more bytes of path
\* "http://a:8080"
LineProxyA == [text |-> <<104, 116, 116, 112, 58, 47, 47, 97, 58, 56, 48, 56, 48>>, pad |-> 0]
\* "http://u:p@b:8080"
LineProxyB == [text |-> <<104, 116, 116, 112, 58, 47, 47, 117, 58, 112, 64, 98, 58, 56, 48, 56, 48>>, pad |-> 0]
\* "https://u:q@a:8080"
LineProxyC == [text |-> <<104, 116, 116, 112, 115, 58, 47, 47, 117, 58, 113, 64, 97, 58, 56, 48, 56, 48>>, pad |-> 0]
\* "http://": parses without error and has no host
LineProxyE == [text |-> <<104, 116, 116, 112, 58, 47, 47>>, pad |-> 0]
\* "  HTTP://a:8080 "
LineProxyUpper == [text |-> <<32, 32, 72, 84, 84, 80, 58, 47, 47, 97, 58, 56, 48, 56, 48, 32>>, pad |-> 0]
\* "# c"
LineComment == [text |-> <<35, 32, 99>>, pad |-> 0]
\* "socks5://c:1080"
LineSocks == [text |-> <<115, 111, 99, 107, 115, 53, 58, 47, 47, 99, 58, 49, 48, 56, 48>>, pad |-> 0]
\* "1.1.1.1:80"
LineNoScheme == [text |-> <<49, 46, 49, 46, 49, 46, 49, 58, 56, 48>>, pad |-> 0]
\* "http://a:x"
LineBadPort == [text |-> <<104, 116, 116, 112, 58, 47, 47, 97, 58, 120>>, pad |-> 0]
\* "http://a": parses without error and has a host without a port
LineProxyNoPort == [text |-> <<104, 116, 116, 112, 58, 47, 47, 97>>, pad |-> 0]
\* "http://u@b:8080": a username and no password
LineProxyUserOnly == [text |-> <<104, 116, 116, 112, 58, 47, 47, 117, 64, 98, 58, 56, 48, 56, 48>>, pad |-> 0]
\* "http://:p@a:8080": a password and no username
LineProxyPassOnly == [text |-> <<104, 116, 116, 112, 58, 47, 47, 58, 112, 64, 97, 58, 56, 48, 56, 48>>, pad |-> 0]
\* ""
LineBlank == [text |-> Empty, pad |-> 0]
\* "socks5://c:1080/" and 69984 more bytes of path: a line of 70000 bytes
LineLong == [text |-> <<115, 111, 99, 107, 115, 53, 58, 47, 47, 99, 58, 49, 48, 56, 48, 47>>, pad |-> 69984]

\* bufio.MaxScanTokenSize: the size of the largest buffer of a bufio.Scanner
MaxScanTokenSize == 65536

\* the upstream proxies a proxy list file can yield (pool.parseProxy)
ProxyA == ParseProxy(LineProxyA.text).proxy
ProxyB == ParseProxy(LineProxyB.text).proxy
ProxyC == ParseProxy(LineProxyC.text).proxy
ProxyE == ParseProxy(LineProxyE.text).proxy

\* the largest pool of the model
MaxPool == 2

\* the proxy list files of the running server
PoolFiles ==
    {f \in {<<LineProxyA>>, <<LineProxyA, LineProxyB>>, <<LineProxyE, LineProxyA>>,
            <<LineProxyA, LineProxyB, LineProxyC>>} : Len(f) <= MaxPool}

RECURSIVE LoadProxies(_)
\* the proxies loadProxies appends for a file it scans to the end
LoadProxies(f) ==
    IF Len(f) = 0 THEN <<>>
    ELSE LET line == TrimSpace(Head(f).text)
         IN  IF line = Empty \/ HasPrefix(line, <<35>>) \/ ParseProxy(line).err
             THEN LoadProxies(Tail(f))
             ELSE <<ParseProxy(line).proxy>> \o LoadProxies(Tail(f))

\* two more proxy list files of the server with one connection: an upstream with a
\* username alone, and one with a password alone
CredentialFiles == {<<LineProxyUserOnly>>, <<LineProxyPassOnly>>}

\* one more proxy list file of the server with one connection: two upstreams on one
\* host:port that differ in scheme and credentials
SharedHostFiles == {<<LineProxyA, LineProxyC>>}

\* the pools NewPool builds (never empty)
Pools == {LoadProxies(f) : f \in PoolFiles}

\* the length of a line in bytes
LineLen(l) == Len(l.text) + l.pad

\* the most lines of a proxy list file
MaxLines == 3

LineKinds ==
    {LineProxyA, LineProxyB, LineProxyC, LineProxyE, LineProxyNoPort, LineProxyUpper,
     LineBlank, LineComment, LineSocks, LineNoScheme, LineBadPort, LineLong}

RECURSIVE FilesOfLen(_)
FilesOfLen(n) ==
    IF n = 0 THEN {<<>>} ELSE {<<l>> \o f : l \in LineKinds, f \in FilesOfLen(n - 1)}

\* the proxy list files NewPool is given: a path that cannot be opened, or lines
ProxyFiles ==
    {[exists |-> FALSE, lines |-> <<>>]}
    \cup {[exists |-> TRUE, lines |-> f] : f \in UNION {FilesOfLen(n) : n \in 0..MaxLines}}

\* a check that compares the username alone
CheckAuthTCP_UserOnly(username, password, authHeader) ==
    IF username = Empty /\ password = Empty THEN TRUE
    ELSE IF authHeader = Empty THEN FALSE
    ELSE LET decoded == DecodeBasicAuth(authHeader)
         IN  IF decoded.err THEN FALSE
             ELSE decoded.username = username

\* a check without the shortcut for a server that has no credentials
CheckAuthTCP_NoShortcut(username, password, authHeader) ==
    IF authHeader = Empty THEN FALSE
    ELSE LET decoded == DecodeBasicAuth(authHeader)
         IN  IF decoded.err THEN FALSE
             ELSE decoded.username = username /\ decoded.password = password

\* Server.checkAuthTCP: TRUE when the connection may go on
CheckAuthTCP(username, password, authHeader) ==
    IF username = Empty /\ password = Empty THEN TRUE
    ELSE IF authHeader = Empty THEN FALSE
    ELSE LET decoded == DecodeBasicAuth(authHeader)
         IN  IF decoded.err THEN FALSE
             ELSE IF decoded.username # username \/ decoded.password # password
             THEN FALSE
             ELSE TRUE

\* an add whose result is not stored
AddInt64_Lost(value, delta) == value

\* atomic.AddInt64: the new value (the counter stays far below 2^63 here)
AddInt64(value, delta) == value + delta

\* Go's % on int64: the sign of the dividend
GoRem(a, n) == IF a >= 0 THEN a % n ELSE 0 - ((0 - a) % n)

\* a selection that always returns the first proxy
NextIndex_First(counter, size) == 0

\* Pool.NextProxy: the index it uses for a counter value that AddInt64 returned
NextIndex(counter, size) == GoRem(counter, size)

\* Client.createClient
CreateClient(id, proxy) ==
    [id        |-> id,
     scheme    |-> proxy.scheme,
     host      |-> proxy.host,
     username  |-> proxy.username,
     password  |-> proxy.password,
     wrapped   |-> proxy.username # Empty,
     proxyAuth |-> IF proxy.username # Empty
                   THEN EncodeBasicAuth(proxy.username, proxy.password)
                   ELSE Empty]
NoClient ==
    CreateClient(0, [scheme |-> Empty, host |-> Empty, username |-> Empty, password |-> Empty])

\* handleHTTPTCP: the status line written for a response with len(Status) >= 4
StatusLine(resp) ==
    HTTP11 \o Itoa(resp.StatusCode) \o <<32>> \o Drop(resp.Status, 4) \o CRLF

RECURSIVE HeaderValueLines(_, _)
\* the "key: value\r\n" lines of one header key
HeaderValueLines(key, values) ==
    IF Len(values) = 0 THEN Empty
    ELSE key \o ColonSpace \o Head(values) \o CRLF \o HeaderValueLines(key, Tail(values))

RECURSIVE HeaderLines(_, _)
\* the header lines for the keys taken in the order `order` (a map iteration)
HeaderLines(header, order) ==
    IF Len(order) = 0 THEN Empty
    ELSE HeaderValueLines(header[Head(order)].key, header[Head(order)].values)
         \o HeaderLines(header, Tail(order))

\* the orders in which a range over a map of n keys can visit them
Orders(n) == {o \in [1..n -> 1..n] : \A a, b \in 1..n : a # b => o[a] # o[b]}

\* ------------------------------------------------------------------ state

VARIABLES
    authUsername,   \* Server.authUsername
    authPassword,   \* Server.authPassword
    proxies,        \* Pool.proxies
    file,           \* the proxy list file NewPool reads: [exists, lines]
    loadpc,         \* where NewPool is: open, scan, returned, built, failed
    scanned,        \* how many lines the scanner has returned
    loaderr,        \* the error of loadProxies or NewPool, "" for nil
    codec,          \* a caller of the auth package: [pc, username, password, header, result]
    arrivals,       \* how many clients will connect
    env,            \* what the clients send: [firstLines, blocks, early]; what the
                    \* upstreams answer: responses; wire:
                    \* whether the requests written to the upstreams are kept
    current,        \* Pool.current
    selections,     \* the indexes NextProxy returned, in the order of its atomic adds
    clients,        \* Client.clients: host -> client
    mux,            \* Client.clientsMux: [w: writer holding or waiting, held, r: readers]
    created,        \* every createClient call so far: [id, host, gen]
    closes,         \* how many times Close() has emptied the cache
    idleClosed,     \* ids of the clients whose idle connections Close() closed
    listener,       \* Server.listener: "nil" or "set"
    sock,           \* the listening socket: "none", "open" or "closed"
    mainpc,         \* where main's call of Start is
    sdpc,           \* where the signal goroutine's call of Shutdown is
    alive,          \* the process runs
    accepted,       \* how many connections the accept loop has accepted
    pc,             \* where each connection's handler is
    loc,            \* the locals of each connection's handler
    out             \* the bytes each handler wrote to its client

cfgVars   == <<authUsername, authPassword, proxies, file, loadpc, scanned, loaderr,
               codec, arrivals, env>>
poolVars  == <<current, selections>>
cacheVars == <<clients, mux, created, closes, idleClosed>>
procVars  == <<listener, sock, mainpc, sdpc, alive, accepted>>
connVars  == <<pc, loc, out>>
vars      == <<cfgVars, poolVars, cacheVars, procVars, connVars>>

\* Pool.Size
Size == Len(proxies)

NoRequest == [headers |-> <<>>, body |-> Empty]

InitLoc ==
    [firstLine     |-> Empty,
     lines         |-> <<>>,
     authHeader    |-> Empty,
     contentLength |-> 0,
     headers       |-> <<>>,
     req           |-> NoRequest,
     i             |-> 0,
     proxy         |-> -1,
     conn          |-> "none",
     up            |-> "none",
     c2u           |-> "none",
     bodyRead      |-> "none",
     client        |-> NoClient,
     resp          |-> NoResponse,
     auth          |-> "unchecked",
     probe         |-> Empty,
     chunk         |-> Empty,
     tried         |-> <<>>,
     silent        |-> FALSE,
     buffered      |-> Empty,
     clientSent    |-> Empty,
     toUpstream    |-> Empty,
     upstreamSent  |-> Empty,
     toClient      |-> Empty,
     sent          |-> <<>>,
     bodyLeft      |-> Empty,
     answer        |-> NoResponse,
     redirects     |-> 0,
     nextCalls     |-> 0,
     dials         |-> 0,
     failed        |-> 0,
     result        |-> "none"]

\* nobody calls the auth package on its own
NoCodec ==
    [pc |-> "idle", username |-> Empty, password |-> Empty, header |-> Empty,
     result |-> [err |-> FALSE, username |-> Empty, password |-> Empty]]

\* nothing has run yet: no selection, no client, no listener, no connection
InitIdle ==
    /\ current = 0
    /\ selections = <<>>
    /\ clients = <<>>
    /\ mux = [w |-> Nobody, held |-> FALSE, r |-> {}]
    /\ created = <<>>
    /\ closes = 0
    /\ idleClosed = {}
    /\ listener = "nil"
    /\ sock = "none"
    /\ mainpc = "listen"
    /\ sdpc = "wait"
    /\ alive = TRUE
    /\ accepted = 0
    /\ pc = [c \in Conns |-> "idle"]
    /\ loc = [c \in Conns |-> InitLoc]
    /\ out = [c \in Conns |-> Empty]

\* a server whose pool NewPool has built from a proxy list file
InitBuilt(files) ==
    /\ \E f \in files :
          /\ file = [exists |-> TRUE, lines |-> f]
          /\ proxies = LoadProxies(f)
          /\ scanned = Len(f)
    /\ loadpc = "built"
    /\ loaderr = ""
    /\ codec = NoCodec
    /\ InitIdle

InitCommon == InitBuilt(PoolFiles)

\* one client of a server without or with credentials
Init ==
    /\ \E cfg \in AuthConfigs :
          authUsername = cfg.username /\ authPassword = cfg.password
    /\ arrivals = 1
    /\ env = [firstLines |-> FirstLines, blocks |-> HeaderBlocks, early |-> {Empty}, wire |-> TRUE,
              responses |-> UpstreamResponses]
    /\ InitBuilt(PoolFiles \cup CredentialFiles \cup SharedHostFiles)

\* two concurrent clients that send a plain GET to a server without credentials
InitConc ==
    /\ authUsername = NoAuth.username /\ authPassword = NoAuth.password
    /\ arrivals = 2
    /\ env = [firstLines |-> {LineGet}, blocks |-> {<<>>}, early |-> {Empty}, wire |-> FALSE,
              responses |-> Responses]
    /\ InitCommon

Goto(c, where) == pc' = [pc EXCEPT ![c] = where]
Write(c, bytes) == out' = [out EXCEPT ![c] = @ \o bytes]
Set(c, locals) == loc' = [loc EXCEPT ![c] = locals]

\* ------------------------------------------------------------------ Start, Shutdown

\* Server.Start: net.Listen
Start_Listen ==
    /\ alive /\ mainpc = "listen"
    /\ \/ sock' = "open" /\ mainpc' = "assign" /\ alive' = alive
       \/ sock' = sock /\ mainpc' = "returned" /\ alive' = FALSE
    /\ UNCHANGED <<listener, sdpc, accepted, cfgVars, poolVars, cacheVars, connVars>>

\* Server.Start: s.listener = listener
Start_Assign ==
    /\ alive /\ mainpc = "assign"
    /\ listener' = "set"
    /\ mainpc' = "accept"
    /\ UNCHANGED <<sock, sdpc, alive, accepted, cfgVars, poolVars, cacheVars, connVars>>

\* Server.Start: listener.Accept succeeds and the handler goroutine starts
Start_Accept ==
    /\ alive /\ mainpc = "accept" /\ sock = "open"
    /\ accepted < arrivals
    /\ accepted' = accepted + 1
    /\ Goto(AcceptOrder[accepted + 1], "first")
    /\ Set(AcceptOrder[accepted + 1], [loc[AcceptOrder[accepted + 1]] EXCEPT !.conn = "open"])
    /\ UNCHANGED <<listener, sock, mainpc, sdpc, alive, out,
                   cfgVars, poolVars, cacheVars>>

\* Server.Start: listener.Accept fails, Start returns and main ends the process
Start_AcceptError ==
    /\ alive /\ mainpc = "accept" /\ sock = "closed"
    /\ mainpc' = "returned"
    /\ alive' = FALSE
    /\ UNCHANGED <<listener, sock, sdpc, accepted, cfgVars, poolVars, cacheVars, connVars>>

\* Server.Shutdown: the listener is closed if s.listener is set
Shutdown_CloseListener ==
    /\ alive /\ sdpc = "wait"
    /\ sock' = IF listener = "set" THEN "closed" ELSE sock
    /\ sdpc' = "close_lock"
    /\ UNCHANGED <<listener, mainpc, alive, accepted, cfgVars, poolVars, cacheVars, connVars>>

\* Client.Close: clientsMux.Lock() is called
Close_Lock ==
    /\ alive /\ sdpc = "close_lock"
    /\ mux.w = Nobody
    /\ mux' = [mux EXCEPT !.w = Closer]
    /\ sdpc' = "close_wait"
    /\ UNCHANGED <<clients, created, closes, idleClosed, listener, sock, mainpc, alive,
                   accepted, cfgVars, poolVars, connVars>>

\* Client.Close: clientsMux.Lock() returns
Close_Locked ==
    /\ alive /\ sdpc = "close_wait"
    /\ mux.w = Closer /\ mux.r = {}
    /\ mux' = [mux EXCEPT !.held = TRUE]
    /\ sdpc' = "close_clear"
    /\ UNCHANGED <<clients, created, closes, idleClosed, listener, sock, mainpc, alive,
                   accepted, cfgVars, poolVars, connVars>>

\* Client.Close: the loop over the clients, the new map and the deferred Unlock
Close_Clear ==
    /\ alive /\ sdpc = "close_clear"
    /\ idleClosed' = idleClosed \cup
           {clients[h].id : h \in {k \in DOMAIN clients : ~clients[k].wrapped}}
    /\ clients' = <<>>
    /\ closes' = closes + 1
    /\ mux' = [w |-> Nobody, held |-> FALSE, r |-> mux.r]
    /\ sdpc' = "exit"
    /\ UNCHANGED <<created, listener, sock, mainpc, alive, accepted,
                   cfgVars, poolVars, connVars>>

\* main's signal goroutine: os.Exit(0) after Shutdown returned
Shutdown_Exit ==
    /\ alive /\ sdpc = "exit"
    /\ sdpc' = "exited"
    /\ alive' = FALSE
    /\ UNCHANGED <<listener, sock, mainpc, accepted, cfgVars, poolVars, cacheVars, connVars>>

\* ------------------------------------------------------------------ handleConnection

\* Server.handleConnection: the first line is read and the branch chosen
HandleConnection(c) ==
    /\ alive /\ pc[c] = "first"
    /\ \/ Goto(c, "done") /\ Set(c, [loc[c] EXCEPT !.conn = "closed"])
       \/ \E line \in env.firstLines :
            /\ Set(c, [loc[c] EXCEPT !.firstLine = line])
            /\ Goto(c, IF HasPrefix(line, ConnectPrefix) THEN "connect" ELSE "http")
    /\ UNCHANGED <<out, cfgVars, poolVars, cacheVars, procVars>>

\* a NextProxy with a plain read-modify-write: the add of a caller that read the
\* counter before another caller's write is lost, and both get the same value
NextProxy_PlainAdd(c) ==
    \/ /\ current' = current + 1
       /\ selections' = Append(selections, NextIndex(current', Size))
    \/ /\ current > 0
       /\ current' = current
       /\ selections' = Append(selections, NextIndex(current', Size))

\* what a handler keeps of one NextProxy call: the counter value the atomic add
\* returned and the index of the proxy it was given
Selected(counter, size) == [n |-> counter, proxy |-> NextIndex(counter, size)]

\* Pool.NextProxy, called by handler c
NextProxy(c) ==
    /\ current' = AddInt64(current, 1)
    /\ selections' = Append(selections, NextIndex(current', Size))

\* ------------------------------------------------------------------ handleConnectTCP

\* the longest stream of tunnel bytes one side sends
MaxTunnel == 3

\* the bytes a side of the tunnel sends one piece at a time
TunnelBytes == {120}

\* the tunnel bytes a client sends in the segment that carries its request: the
\* read that fills the bufio.Reader takes them along with the headers
EarlyBytes == {Empty, BodyHi}

\* what follows the blank line that ends the reply in the upstream's first chunk
AfterHead(chunk) ==
    LET ends == {k \in 1..(Len(chunk) - 3) : SubSeq(chunk, k, k + 3) = CRLF \o CRLF}
    IN  IF ends = {} THEN Empty
        ELSE Drop(chunk, (CHOOSE k \in ends : \A j \in ends : k <= j) + 3)

\* handleConnectTCP: the request line is checked and the headers are read; the
\* reader may hold bytes that followed the blank line
Connect_Parse(c) ==
    /\ alive /\ pc[c] = "connect"
    /\ IF NumFields(loc[c].firstLine) < 2
       THEN /\ Write(c, BadRequest) /\ Goto(c, "done")
            /\ Set(c, [loc[c] EXCEPT !.conn = "closed"])
       ELSE \/ /\ Goto(c, "done") /\ out' = out
               /\ Set(c, [loc[c] EXCEPT !.conn = "closed"])
            \/ \E block \in env.blocks, early \in env.early :
                 /\ Set(c, [loc[c] EXCEPT !.authHeader = ConnectAuthHeader(block, Empty),
                                          !.buffered = early, !.clientSent = early])
                 /\ Goto(c, "connect_auth")
                 /\ out' = out
    /\ UNCHANGED <<cfgVars, poolVars, cacheVars, procVars>>

\* a handler that sends 407 and does not return
Connect_Auth_NoReturn(c) ==
    /\ alive /\ pc[c] = "connect_auth"
    /\ IF CheckAuthTCP(authUsername, authPassword, loc[c].authHeader)
       THEN /\ Set(c, [loc[c] EXCEPT !.auth = "pass", !.i = 0])
            /\ out' = out
       ELSE /\ Set(c, [loc[c] EXCEPT !.auth = "fail", !.i = 0])
            /\ Write(c, AuthRequired)
    /\ Goto(c, "connect_loop")
    /\ UNCHANGED <<cfgVars, poolVars, cacheVars, procVars>>

\* handleConnectTCP: checkAuthTCP
Connect_Auth(c) ==
    /\ alive /\ pc[c] = "connect_auth"
    /\ IF CheckAuthTCP(authUsername, authPassword, loc[c].authHeader)
       THEN /\ Set(c, [loc[c] EXCEPT !.auth = "pass", !.i = 0])
            /\ Goto(c, "connect_loop")
            /\ out' = out
       ELSE /\ Set(c, [loc[c] EXCEPT !.conn = "closed", !.auth = "fail"])
            /\ Write(c, AuthRequired)
            /\ Goto(c, "done")
    /\ UNCHANGED <<cfgVars, poolVars, cacheVars, procVars>>

\* a failover loop that gives up one attempt early
ConnectLoopCond_Early(i, size) == i < size - 1

\* handleConnectTCP: the condition of the failover loop
ConnectLoopCond(i, size) == i < size

\* handleConnectTCP: the loop condition; NextProxy, or 502 after the last attempt
Connect_Loop(c) ==
    /\ alive /\ pc[c] = "connect_loop"
    /\ IF ConnectLoopCond(loc[c].i, Size)
       THEN /\ NextProxy(c)
            /\ Set(c, [loc[c] EXCEPT !.proxy = NextIndex(current', Size),
                                     !.tried = Append(@, Selected(current', Size)),
                                     !.nextCalls = @ + 1])
            /\ Goto(c, "connect_dial")
            /\ out' = out
       ELSE /\ Write(c, BadGateway)
            /\ Set(c, [loc[c] EXCEPT !.conn = "closed", !.result = "fail"])
            /\ Goto(c, "done")
            /\ UNCHANGED poolVars
    /\ UNCHANGED <<cfgVars, cacheVars, procVars>>

\* handleConnectTCP: the destination, with the default port when it names none
DestAddr(firstLine) ==
    LET dest == TrimSpace(Field(firstLine, 1))
    IN  IF IndexByte(dest, 58) < 0 THEN dest \o DefaultPortSuffix ELSE dest

\* a probe that carries the header for every upstream
ConnectRequest_AlwaysAuth(destAddr, proxy) ==
    ConnectPrefix \o destAddr \o ProbeHost \o destAddr \o CRLF \o ProbeFixedHeaders
    \o ProbeAuthorization \o EncodeBasicAuth(proxy.username, proxy.password) \o CRLF
    \o CRLF

\* connectThroughProxy: the CONNECT request written to the upstream
ConnectRequest(destAddr, proxy) ==
    ConnectPrefix \o destAddr \o ProbeHost \o destAddr \o CRLF \o ProbeFixedHeaders
    \o (IF proxy.username # Empty
        THEN ProbeAuthorization \o EncodeBasicAuth(proxy.username, proxy.password) \o CRLF
        ELSE Empty)
    \o CRLF

\* connectThroughProxy: net.Dial and the write of the CONNECT probe
Connect_Dial(c) ==
    /\ alive /\ pc[c] = "connect_dial"
    /\ \/ \* the dial fails
          /\ Set(c, [loc[c] EXCEPT !.dials = @ + 1, !.failed = @ + 1, !.i = @ + 1])
          /\ Goto(c, "connect_loop")
       \/ \* the dial succeeds, the write fails and the socket is closed
          /\ proxies[loc[c].proxy + 1].host # Empty
          /\ Set(c, [loc[c] EXCEPT !.dials = @ + 1, !.failed = @ + 1, !.i = @ + 1,
                                   !.up = "closed"])
          /\ Goto(c, "connect_loop")
       \/ \* the probe is sent; the upstream will answer it, break the connection,
          \* or keep the connection open and stay silent
          /\ proxies[loc[c].proxy + 1].host # Empty
          /\ \E silent \in BOOLEAN :
                Set(c, [loc[c] EXCEPT !.dials = @ + 1, !.up = "open", !.silent = silent,
                                      !.probe = ConnectRequest(DestAddr(loc[c].firstLine),
                                                               proxies[loc[c].proxy + 1])])
          /\ Goto(c, "connect_reply")
    /\ UNCHANGED <<out, cfgVars, poolVars, cacheVars, procVars>>

\* an upstream reply is accepted by its status line
ProbeAccepted_StatusLine(chunk) == HasPrefix(chunk, StatusLine200)

\* connectThroughProxy: strings.Contains(response, "200")
ProbeAccepted(chunk) == Contains(chunk, Lit200)

\* a handshake that leaves the upstream socket open when the reply is refused
Connect_Reply_NoClose(c) ==
    /\ alive /\ pc[c] = "connect_reply"
    /\ ~loc[c].silent
    /\ \/ \* the read fails
          /\ Set(c, [loc[c] EXCEPT !.failed = @ + 1, !.i = @ + 1, !.up = "closed",
                                   !.chunk = Empty])
          /\ Goto(c, "connect_loop")
       \/ \E chunk \in UpstreamChunks :
            IF ProbeAccepted(chunk)
            THEN /\ Set(c, [loc[c] EXCEPT !.result = "ok", !.chunk = chunk,
                                          !.upstreamSent = AfterHead(chunk)])
                 /\ Goto(c, "connect_ok")
            ELSE /\ Set(c, [loc[c] EXCEPT !.failed = @ + 1, !.i = @ + 1, !.chunk = chunk])
                 /\ Goto(c, "connect_loop")
    /\ UNCHANGED <<out, cfgVars, poolVars, cacheVars, procVars>>

\* a probe read that carries a deadline: it fails when the upstream stays silent
Connect_Reply_Deadline(c) ==
    /\ alive /\ pc[c] = "connect_reply"
    /\ \/ \* the read fails or times out
          /\ Set(c, [loc[c] EXCEPT !.failed = @ + 1, !.i = @ + 1, !.up = "closed",
                                   !.chunk = Empty])
          /\ Goto(c, "connect_loop")
       \/ \E chunk \in UpstreamChunks :
            /\ ~loc[c].silent
            /\ IF ProbeAccepted(chunk)
               THEN /\ Set(c, [loc[c] EXCEPT !.result = "ok", !.chunk = chunk,
                                             !.upstreamSent = AfterHead(chunk)])
                    /\ Goto(c, "connect_ok")
               ELSE /\ Set(c, [loc[c] EXCEPT !.failed = @ + 1, !.i = @ + 1,
                                             !.up = "closed", !.chunk = chunk])
                    /\ Goto(c, "connect_loop")
    /\ UNCHANGED <<out, cfgVars, poolVars, cacheVars, procVars>>

\* connectThroughProxy: the first chunk of the reply is read and searched for "200".
\* proxyConn.Read has no deadline: it returns only when the upstream sends bytes or
\* the connection breaks, so a silent upstream leaves the handler in the read
Connect_Reply(c) ==
    /\ alive /\ pc[c] = "connect_reply"
    /\ ~loc[c].silent
    /\ \/ \* the read fails
          /\ Set(c, [loc[c] EXCEPT !.failed = @ + 1, !.i = @ + 1, !.up = "closed",
                                   !.chunk = Empty])
          /\ Goto(c, "connect_loop")
       \/ \E chunk \in UpstreamChunks :
            IF ProbeAccepted(chunk)
            THEN /\ Set(c, [loc[c] EXCEPT !.result = "ok", !.chunk = chunk,
                                             !.upstreamSent = AfterHead(chunk)])
                 /\ Goto(c, "connect_ok")
            ELSE /\ Set(c, [loc[c] EXCEPT !.failed = @ + 1, !.i = @ + 1, !.up = "closed",
                                          !.chunk = chunk])
                 /\ Goto(c, "connect_loop")
    /\ UNCHANGED <<out, cfgVars, poolVars, cacheVars, procVars>>

\* a handler that starts relaying before it has answered the client
Connect_Established_RelayFirst(c) ==
    /\ alive /\ pc[c] = "connect_ok"
    /\ Goto(c, "relay")
    /\ UNCHANGED <<loc, out, cfgVars, poolVars, cacheVars, procVars>>

\* handleConnectTCP: 200 Connection Established is written
Connect_Established(c) ==
    /\ alive /\ pc[c] = "connect_ok"
    /\ \/ /\ Set(c, [loc[c] EXCEPT !.conn = "closed", !.up = "closed"])
          /\ Goto(c, "done")
          /\ out' = out
       \/ /\ Write(c, ConnectionEstablished)
          /\ Goto(c, "relay")
          /\ Set(c, [loc[c] EXCEPT !.c2u = "copying"])
    /\ UNCHANGED <<cfgVars, poolVars, cacheVars, procVars>>

\* the goroutine's copyData(upstreamConn, conn) returns: the read from the client
\* hit end-of-stream or an error, or the write to the upstream failed
CopyData_ClientToUpstream(c) ==
    /\ alive /\ pc[c] \in {"relay", "done"}
    /\ loc[c].c2u = "copying"
    /\ Set(c, [loc[c] EXCEPT !.c2u = "returned"])
    /\ UNCHANGED <<pc, out, cfgVars, poolVars, cacheVars, procVars>>

\* copyData(upstreamConn, conn): io.Copy reads the bytes the client sends from
\* conn and writes them to the upstream
Relay_ClientToUpstream(c) ==
    /\ alive /\ pc[c] = "relay"
    /\ loc[c].c2u = "copying"
    /\ Len(loc[c].clientSent) < MaxTunnel
    /\ \E b \in TunnelBytes :
          Set(c, [loc[c] EXCEPT !.clientSent = Append(@, b), !.toUpstream = Append(@, b)])
    /\ UNCHANGED <<pc, out, cfgVars, poolVars, cacheVars, procVars>>

\* copyData(conn, upstreamConn): io.Copy reads the bytes the upstream sends from
\* upstreamConn and writes them to the client
Relay_UpstreamToClient(c) ==
    /\ alive /\ pc[c] = "relay"
    /\ Len(loc[c].upstreamSent) < MaxTunnel
    /\ \E b \in TunnelBytes :
          Set(c, [loc[c] EXCEPT !.upstreamSent = Append(@, b), !.toClient = Append(@, b)])
    /\ UNCHANGED <<pc, out, cfgVars, poolVars, cacheVars, procVars>>

\* handleConnectTCP: copyData(conn, upstreamConn) returns, both sockets are closed
Connect_RelayEnd(c) ==
    /\ alive /\ pc[c] = "relay"
    /\ Set(c, [loc[c] EXCEPT !.conn = "closed", !.up = "closed"])
    /\ Goto(c, "done")
    /\ UNCHANGED <<out, cfgVars, poolVars, cacheVars, procVars>>

\* ------------------------------------------------------------------ handleHTTPTCP

\* handleHTTPTCP: the request line is checked and the headers are read
HTTP_Parse(c) ==
    /\ alive /\ pc[c] = "http"
    /\ IF NumFields(loc[c].firstLine) < 3
       THEN /\ Write(c, BadRequest) /\ Goto(c, "done")
            /\ Set(c, [loc[c] EXCEPT !.conn = "closed"])
       ELSE \/ /\ Goto(c, "done") /\ out' = out
               /\ Set(c, [loc[c] EXCEPT !.conn = "closed"])
            \/ \E block \in env.blocks :
                 LET parsed == HTTPHeaders(block, NoHeaders)
                 IN  /\ Set(c, [loc[c] EXCEPT !.lines = block,
                                              !.authHeader = parsed.authHeader,
                                              !.contentLength = parsed.contentLength,
                                              !.headers = parsed.headers])
                     /\ Goto(c, "http_auth")
                     /\ out' = out
    /\ UNCHANGED <<cfgVars, poolVars, cacheVars, procVars>>

\* a handler that sends 407 and goes on to forward the request
HTTP_Auth_NoReturn(c) ==
    /\ alive /\ pc[c] = "http_auth"
    /\ IF CheckAuthTCP(authUsername, authPassword, loc[c].authHeader)
       THEN /\ Set(c, [loc[c] EXCEPT !.auth = "pass"])
            /\ out' = out
       ELSE /\ Set(c, [loc[c] EXCEPT !.auth = "fail"])
            /\ Write(c, AuthRequired)
    /\ Goto(c, "http_body")
    /\ UNCHANGED <<cfgVars, poolVars, cacheVars, procVars>>

\* handleHTTPTCP: checkAuthTCP
HTTP_Auth(c) ==
    /\ alive /\ pc[c] = "http_auth"
    /\ IF CheckAuthTCP(authUsername, authPassword, loc[c].authHeader)
       THEN /\ Set(c, [loc[c] EXCEPT !.auth = "pass"])
            /\ Goto(c, "http_body")
            /\ out' = out
       ELSE /\ Set(c, [loc[c] EXCEPT !.conn = "closed", !.auth = "fail",
                                     !.headers = <<>>, !.contentLength = 0])
            /\ Write(c, AuthRequired)
            /\ Goto(c, "done")
    /\ UNCHANGED <<cfgVars, poolVars, cacheVars, procVars>>

\* the bodies a client sends
Bodies == {BodyHi}

\* a handler that forwards the request although the body ended early
HTTP_Body_ShortBodyForwarded(c) ==
    /\ alive /\ pc[c] = "http_body"
    /\ \/ \* io.ReadFull ends before contentLength bytes
          /\ loc[c].contentLength > 0
          /\ Set(c, [loc[c] EXCEPT
                        !.req = [headers |-> ForwardedHeaders(loc[c].headers),
                                 body    |-> Empty],
                        !.headers = <<>>, !.contentLength = 0, !.i = 0,
                        !.bodyRead = "short"])
          /\ Goto(c, "do_loop")
          /\ out' = out
       \/ \E body \in IF loc[c].contentLength > 0
                      THEN {b \in Bodies : Len(b) = loc[c].contentLength}
                      ELSE {Empty} :
            LET read == IF loc[c].contentLength > 0 THEN "full" ELSE "none"
            IN  IF NewRequestFails(Field(loc[c].firstLine, 0), Field(loc[c].firstLine, 1))
                THEN /\ Write(c, BadRequest)
                     /\ Set(c, [loc[c] EXCEPT !.conn = "closed", !.headers = <<>>,
                                              !.contentLength = 0,
                                              !.bodyRead = read])
                     /\ Goto(c, "done")
                ELSE /\ Set(c, [loc[c] EXCEPT
                                   !.req = [headers |-> ForwardedHeaders(loc[c].headers),
                                            body    |-> body],
                                   !.bodyLeft = body,
                                   !.headers = <<>>, !.contentLength = 0, !.i = 0,
                                   !.bodyRead = read])
                     /\ Goto(c, "do_loop")
                     /\ out' = out
    /\ UNCHANGED <<cfgVars, poolVars, cacheVars, procVars>>

\* handleHTTPTCP: the body is read and the outgoing request is built
HTTP_Body(c) ==
    /\ alive /\ pc[c] = "http_body"
    /\ \/ \* io.ReadFull ends before contentLength bytes
          /\ loc[c].contentLength > 0
          /\ Write(c, BadRequest)
          /\ Set(c, [loc[c] EXCEPT !.conn = "closed", !.headers = <<>>,
                                              !.contentLength = 0,
                                   !.bodyRead = "short"])
          /\ Goto(c, "done")
       \/ \E body \in IF loc[c].contentLength > 0
                      THEN {b \in Bodies : Len(b) = loc[c].contentLength}
                      ELSE {Empty} :
            LET read == IF loc[c].contentLength > 0 THEN "full" ELSE "none"
            IN  IF NewRequestFails(Field(loc[c].firstLine, 0), Field(loc[c].firstLine, 1))
                THEN /\ Write(c, BadRequest)
                     /\ Set(c, [loc[c] EXCEPT !.conn = "closed", !.headers = <<>>,
                                              !.contentLength = 0,
                                              !.bodyRead = read])
                     /\ Goto(c, "done")
                ELSE /\ Set(c, [loc[c] EXCEPT
                                   !.req = [headers |-> ForwardedHeaders(loc[c].headers),
                                            body    |-> body],
                                   !.bodyLeft = body,
                                   !.headers = <<>>, !.contentLength = 0, !.i = 0,
                                   !.bodyRead = read])
                     /\ Goto(c, "do_loop")
                     /\ out' = out
    /\ UNCHANGED <<cfgVars, poolVars, cacheVars, procVars>>

\* a failover loop that gives up one attempt early
DoLoopCond_Early(i, size) == i < size - 1

\* Client.Do: the condition of the failover loop
DoLoopCond(i, size) == i < size

\* a Do that hands every result of NextProxy to getClient
Do_Loop_UseSentinel(c) ==
    /\ alive /\ pc[c] = "do_loop"
    /\ IF DoLoopCond(loc[c].i, Size)
       THEN /\ NextProxy(c)
            /\ IF FALSE
               THEN /\ Set(c, [loc[c] EXCEPT !.proxy = NextIndex(current', Size),
                                             !.tried = Append(@, Selected(current', Size)),
                                             !.nextCalls = @ + 1,
                                             !.failed = @ + 1, !.i = @ + 1])
                    /\ pc' = pc
               ELSE /\ Set(c, [loc[c] EXCEPT !.proxy = NextIndex(current', Size),
                                             !.tried = Append(@, Selected(current', Size)),
                                             !.nextCalls = @ + 1])
                    /\ Goto(c, "gc_rlock")
            /\ out' = out
       ELSE /\ Write(c, BadGateway)
            /\ Set(c, [loc[c] EXCEPT !.conn = "closed", !.result = "fail", !.req = NoRequest])
            /\ Goto(c, "done")
            /\ UNCHANGED poolVars
    /\ UNCHANGED <<cfgVars, cacheVars, procVars>>

\* Client.Do: the loop condition; NextProxy and the sentinel test, or the
\* error return, on which handleHTTPTCP writes 502
Do_Loop(c) ==
    /\ alive /\ pc[c] = "do_loop"
    /\ IF DoLoopCond(loc[c].i, Size)
       THEN /\ NextProxy(c)
            /\ IF proxies[NextIndex(current', Size) + 1].host = Empty
               THEN /\ Set(c, [loc[c] EXCEPT !.proxy = NextIndex(current', Size),
                                             !.tried = Append(@, Selected(current', Size)),
                                             !.nextCalls = @ + 1,
                                             !.failed = @ + 1, !.i = @ + 1])
                    /\ pc' = pc
               ELSE /\ Set(c, [loc[c] EXCEPT !.proxy = NextIndex(current', Size),
                                             !.tried = Append(@, Selected(current', Size)),
                                             !.nextCalls = @ + 1])
                    /\ Goto(c, "gc_rlock")
            /\ out' = out
       ELSE /\ Write(c, BadGateway)
            /\ Set(c, [loc[c] EXCEPT !.conn = "closed", !.result = "fail", !.req = NoRequest])
            /\ Goto(c, "done")
            /\ UNCHANGED poolVars
    /\ UNCHANGED <<cfgVars, cacheVars, procVars>>

\* Client.getClient: clientsMux.RLock()
GetClient_RLock(c) ==
    /\ alive /\ pc[c] = "gc_rlock"
    /\ mux.w = Nobody
    /\ mux' = [mux EXCEPT !.r = @ \cup {c}]
    /\ Goto(c, "gc_read")
    /\ UNCHANGED <<clients, created, closes, idleClosed, loc, out,
                   cfgVars, poolVars, procVars>>

\* a lookup that returns the client it found without RUnlock()
GetClient_Read_NoRUnlock(c) ==
    /\ alive /\ pc[c] = "gc_read"
    /\ LET proxyKey == proxies[loc[c].proxy + 1].host
       IN  IF proxyKey \in DOMAIN clients
           THEN /\ Set(c, [loc[c] EXCEPT !.client = clients[proxyKey]])
                /\ Goto(c, "roundtrip")
                /\ mux' = mux
           ELSE /\ loc' = loc
                /\ Goto(c, "gc_lock")
                /\ mux' = [mux EXCEPT !.r = @ \ {c}]
    /\ UNCHANGED <<clients, created, closes, idleClosed, out,
                   cfgVars, poolVars, procVars>>

\* Client.getClient: the lookup under the read lock, then RUnlock()
GetClient_Read(c) ==
    /\ alive /\ pc[c] = "gc_read"
    /\ mux' = [mux EXCEPT !.r = @ \ {c}]
    /\ LET proxyKey == proxies[loc[c].proxy + 1].host
       IN  IF proxyKey \in DOMAIN clients
           THEN Set(c, [loc[c] EXCEPT !.client = clients[proxyKey]])
                /\ Goto(c, "roundtrip")
           ELSE loc' = loc /\ Goto(c, "gc_lock")
    /\ UNCHANGED <<clients, created, closes, idleClosed, out,
                   cfgVars, poolVars, procVars>>

\* Client.getClient: clientsMux.Lock() is called
GetClient_Lock(c) ==
    /\ alive /\ pc[c] = "gc_lock"
    /\ mux.w = Nobody
    /\ mux' = [mux EXCEPT !.w = c]
    /\ Goto(c, "gc_lockwait")
    /\ UNCHANGED <<clients, created, closes, idleClosed, loc, out,
                   cfgVars, poolVars, procVars>>

\* Client.getClient: clientsMux.Lock() returns
GetClient_Locked(c) ==
    /\ alive /\ pc[c] = "gc_lockwait"
    /\ mux.w = c /\ mux.r = {}
    /\ mux' = [mux EXCEPT !.held = TRUE]
    /\ Goto(c, "gc_write")
    /\ UNCHANGED <<clients, created, closes, idleClosed, loc, out,
                   cfgVars, poolVars, procVars>>

\* a getClient that does not look again under the write lock
MustCreate_NoRecheck(proxyKey) == TRUE

\* Client.getClient under the write lock: TRUE when a client must be built
MustCreate(proxyKey) == proxyKey \notin DOMAIN clients

\* a getClient whose insert drops the other entries of the cache
GetClient_Write_Evict(c) ==
    /\ alive /\ pc[c] = "gc_write"
    /\ LET proxy    == proxies[loc[c].proxy + 1]
           proxyKey == proxy.host
           client   == CreateClient(Len(created) + 1, proxy)
       IN  IF MustCreate(proxyKey)
           THEN /\ clients' = Put(<<>>, proxyKey, client)
                /\ created' = Append(created,
                                 [id |-> client.id, host |-> proxyKey, gen |-> closes])
                /\ Set(c, [loc[c] EXCEPT !.client = client])
           ELSE /\ UNCHANGED <<clients, created>>
                /\ Set(c, [loc[c] EXCEPT !.client = clients[proxyKey]])
    /\ mux' = [w |-> Nobody, held |-> FALSE, r |-> mux.r]
    /\ Goto(c, "roundtrip")
    /\ UNCHANGED <<closes, idleClosed, out, cfgVars, poolVars, procVars>>

\* Client.getClient: the second lookup, createClient and the insert, then Unlock()
GetClient_Write(c) ==
    /\ alive /\ pc[c] = "gc_write"
    /\ LET proxy    == proxies[loc[c].proxy + 1]
           proxyKey == proxy.host
           client   == CreateClient(Len(created) + 1, proxy)
       IN  IF MustCreate(proxyKey)
           THEN /\ clients' = Put(clients, proxyKey, client)
                /\ created' = Append(created,
                                 [id |-> client.id, host |-> proxyKey, gen |-> closes])
                /\ Set(c, [loc[c] EXCEPT !.client = client])
           ELSE /\ UNCHANGED <<clients, created>>
                /\ Set(c, [loc[c] EXCEPT !.client = clients[proxyKey]])
    /\ mux' = [w |-> Nobody, held |-> FALSE, r |-> mux.r]
    /\ Goto(c, "roundtrip")
    /\ UNCHANGED <<closes, idleClosed, out, cfgVars, poolVars, procVars>>

\* proxyAuthTransport.RoundTrip: req.Header.Set("Proxy-Authorization", t.proxyAuth)
\* on the request's own header map when the client's transport is wrapped; a plain
\* http.Transport sends the header map as it finds it
RoundTripHeaders(client, headers) ==
    IF client.wrapped THEN Put(headers, ProxyAuthorization, client.proxyAuth) ELSE headers

\* the requests written to the upstreams so far, with one more
Written(sent, attempt) == IF env.wire THEN Append(sent, attempt) ELSE sent

\* how many redirects in a row an upstream answers (net/http gives up after 10)
MaxRedirects == 2

\* net/http's redirect policy for a GET: a 301, 302, 303, 307 or 308 with a
\* Location header is followed by the http.Client itself (createClient sets no
\* CheckRedirect)
IsRedirect(resp) ==
    /\ resp.StatusCode \in {301, 302, 303, 307, 308}
    /\ \E k \in 1..Len(resp.Header) : resp.Header[k].key = KeyLocation

\* Client.Do: client.Do(req) fails, or returns a response. The header map of req is
\* shared by all attempts, so what a wrapped transport set stays in it; req.Body is
\* the one bytes.Reader that http.NewRequest was given, so an attempt that wrote
\* the request leaves it at its end. A transport that finds fewer bytes in the
\* body than ContentLength announces fails the attempt. A redirect is not
\* returned: the client sends a GET for its Location through the same transport
Do_RoundTrip(c) ==
    /\ alive /\ pc[c] = "roundtrip"
    /\ LET headers   == RoundTripHeaders(loc[c].client, loc[c].req.headers)
           attempt   == [proxy         |-> loc[c].proxy,
                         headers       |-> headers,
                         contentLength |-> Len(loc[c].req.body),
                         body          |-> loc[c].bodyLeft]
           following == loc[c].redirects > 0
           sent      == IF following THEN loc[c].sent ELSE Written(loc[c].sent, attempt)
           answer    == [resp \in env.responses |->
                            IF loc[c].answer = NoResponse THEN resp ELSE loc[c].answer]
       IN  \/ \* the upstream cannot be reached: nothing is written
              /\ Set(c, [loc[c] EXCEPT !.failed = @ + 1, !.i = @ + 1,
                                        !.req.headers = headers,
                                        !.redirects = 0])
              /\ Goto(c, "do_loop")
           \/ \* the request is written and the attempt fails
              /\ Set(c, [loc[c] EXCEPT !.failed = @ + 1, !.i = @ + 1,
                                        !.req.headers = headers,
                                        !.bodyLeft = Empty,
                                        !.sent = sent,
                                        !.redirects = 0])
              /\ Goto(c, "do_loop")
           \/ \* the request is written and a response arrives
              /\ following \/ loc[c].bodyLeft = loc[c].req.body
              /\ \E resp \in env.responses :
                    IF IsRedirect(resp)
                    THEN /\ loc[c].redirects < MaxRedirects
                         /\ Set(c, [loc[c] EXCEPT !.answer = answer[resp],
                                                  !.redirects = @ + 1,
                                                  !.req.headers = headers,
                                                  !.bodyLeft = Empty,
                                                  !.sent = sent])
                         /\ pc' = pc
                    ELSE /\ Set(c, [loc[c] EXCEPT !.resp = resp, !.result = "ok",
                                                  !.answer = answer[resp],
                                                  !.req.headers = headers,
                                                  !.bodyLeft = Empty,
                                                  !.sent = sent])
                         /\ Goto(c, "respond")
    /\ UNCHANGED <<out, cfgVars, poolVars, cacheVars, procVars>>

\* handleHTTPTCP: the status line, the headers, the blank line and the body are
\* written; resp.Status[4:] panics when Status has fewer than 4 bytes
HTTP_Respond(c) ==
    /\ alive /\ pc[c] = "respond"
    /\ IF Len(loc[c].resp.Status) < 4
       THEN /\ Goto(c, "panic")
            /\ alive' = FALSE
            /\ out' = out
            /\ loc' = loc
       ELSE /\ \E order \in Orders(Len(loc[c].resp.Header)) :
                 Write(c, StatusLine(loc[c].resp)
                          \o HeaderLines(loc[c].resp.Header, order)
                          \o CRLF
                          \o loc[c].resp.Body)
            /\ Goto(c, "done")
            /\ Set(c, [loc[c] EXCEPT !.conn = "closed"])
            /\ alive' = alive
    /\ UNCHANGED <<listener, sock, mainpc, sdpc, accepted,
                   cfgVars, poolVars, cacheVars>>

\* ------------------------------------------------------------------ specification

Next ==
    \/ Start_Listen
    \/ Start_Assign
    \/ Start_Accept
    \/ Start_AcceptError
    \/ Shutdown_CloseListener
    \/ Close_Lock
    \/ Close_Locked
    \/ Close_Clear
    \/ Shutdown_Exit
    \/ \E c \in Conns :
        \/ HandleConnection(c)
        \/ Connect_Parse(c)
        \/ Connect_Auth(c)
        \/ Connect_Loop(c)
        \/ Connect_Dial(c)
        \/ Connect_Reply(c)
        \/ Connect_Established(c)
        \/ CopyData_ClientToUpstream(c)
        \/ Connect_RelayEnd(c)
        \/ HTTP_Parse(c)
        \/ HTTP_Auth(c)
        \/ HTTP_Body(c)
        \/ Do_Loop(c)
        \/ GetClient_RLock(c)
        \/ GetClient_Read(c)
        \/ GetClient_Lock(c)
        \/ GetClient_Locked(c)
        \/ GetClient_Write(c)
        \/ Do_RoundTrip(c)
        \/ HTTP_Respond(c)

Spec == Init /\ [][Next]_vars

\* ------------------------------------------------------------------ the counter at full width

\* an int64 in two's complement: four limbs of 16 bits, the most significant first
LimbBase == 65536
Int64Zero == <<0, 0, 0, 0>>
Int64Max == <<32767, 65535, 65535, 65535>>
Int64Min == <<32768, 0, 0, 0>>
Int64MinusOne == <<65535, 65535, 65535, 65535>>

RECURSIVE IncLimbs(_, _)
\* one is added at limb k and the carry moves on; a carry out of limb 1 is dropped
IncLimbs(v, k) ==
    IF k = 0 THEN v
    ELSE IF v[k] = LimbBase - 1 THEN IncLimbs([v EXCEPT ![k] = 0], k - 1)
    ELSE [v EXCEPT ![k] = @ + 1]

\* atomic.AddInt64(&p.current, 1) on all 64 bits: the value after 2^63 - 1 is -2^63
AddInt64Wrap(value) == IncLimbs(value, 4)

RECURSIVE PlusInt64(_, _)
\* value + n for a small n >= 0
PlusInt64(value, n) == IF n = 0 THEN value ELSE PlusInt64(AddInt64Wrap(value), n - 1)

\* the sign bit
IsNegativeInt64(v) == v[1] >= LimbBase \div 2

RECURSIVE LimbsMod(_, _, _)
\* the limbs read as an unsigned number, modulo n, with r the remainder so far
LimbsMod(limbs, n, r) ==
    IF Len(limbs) = 0 THEN r
    ELSE LimbsMod(Tail(limbs), n, (r * LimbBase + Head(limbs)) % n)

\* Go's % int64(n) on an int64: the result has the sign of the dividend
RemInt64(v, n) ==
    IF ~IsNegativeInt64(v) THEN LimbsMod(v, n, 0)
    ELSE LET pow64     == LimbsMod(<<1, 0, 0, 0, 0>>, n, 0)
             magnitude == (pow64 + n - LimbsMod(v, n, 0)) % n
         IN  0 - magnitude

\* how many NextProxy calls are followed from one counter value
MaxCalls == 4

\* the counter values NextProxy starts from: around zero, around the largest
\* int64, around the smallest and just below zero
CounterStarts ==
    {Int64Zero, PlusInt64(Int64Zero, 1), PlusInt64(Int64Zero, 2), PlusInt64(Int64Zero, 3),
     PlusInt64(Int64Max, 0), PlusInt64(Int64Min, 0), PlusInt64(Int64Min, 1),
     PlusInt64(Int64Min, 2), PlusInt64(Int64Min, 3),
     <<32767, 65535, 65535, 65533>>, <<32767, 65535, 65535, 65534>>,
     <<65535, 65535, 65535, 65533>>, <<65535, 65535, 65535, 65534>>, Int64MinusOne}

\* a pool whose counter has any of these values
InitCounter ==
    /\ authUsername = NoAuth.username /\ authPassword = NoAuth.password
    /\ arrivals = 0
    /\ env = [firstLines |-> {LineGet}, blocks |-> {<<>>}, early |-> {Empty}, wire |-> FALSE,
              responses |-> Responses]
    /\ \E f \in PoolFiles :
          /\ file = [exists |-> TRUE, lines |-> f]
          /\ proxies = LoadProxies(f)
          /\ scanned = Len(f)
    /\ loadpc = "built"
    /\ loaderr = ""
    /\ codec = NoCodec
    /\ current \in CounterStarts
    /\ selections = <<>>
    /\ clients = <<>>
    /\ mux = [w |-> Nobody, held |-> FALSE, r |-> {}]
    /\ created = <<>>
    /\ closes = 0
    /\ idleClosed = {}
    /\ listener = "nil"
    /\ sock = "none"
    /\ mainpc = "listen"
    /\ sdpc = "wait"
    /\ alive = TRUE
    /\ accepted = 0
    /\ pc = [c \in Conns |-> "idle"]
    /\ loc = [c \in Conns |-> InitLoc]
    /\ out = [c \in Conns |-> Empty]

\* Pool.NextProxy on the 64-bit counter: the add, the remainder and
\* p.proxies[index], which panics for an index outside the slice
Pool_NextProxy ==
    /\ alive
    /\ Len(selections) < MaxCalls
    /\ current' = AddInt64Wrap(current)
    /\ LET index == RemInt64(current', Size)
       IN  /\ selections' = Append(selections, index)
           /\ alive' = (index >= 0 /\ index < Size)
    /\ UNCHANGED <<listener, sock, mainpc, sdpc, accepted, cfgVars, cacheVars, connVars>>

SpecCounter == InitCounter /\ [][Pool_NextProxy]_vars

\* one client that opens a tunnel through a server without credentials and may
\* send its first tunnel bytes together with the request
InitTunnel ==
    /\ authUsername = NoAuth.username /\ authPassword = NoAuth.password
    /\ arrivals = 1
    /\ env = [firstLines |-> {LineConnect}, blocks |-> {<<>>}, early |-> EarlyBytes, wire |-> FALSE,
              responses |-> Responses]
    /\ InitCommon

\* the CONNECT path with the bytes the relay copies
NextTunnel ==
    \/ Start_Listen
    \/ Start_Assign
    \/ Start_Accept
    \/ Start_AcceptError
    \/ Shutdown_CloseListener
    \/ Close_Lock
    \/ Close_Locked
    \/ Close_Clear
    \/ Shutdown_Exit
    \/ \E c \in Conns :
        \/ HandleConnection(c)
        \/ Connect_Parse(c)
        \/ Connect_Auth(c)
        \/ Connect_Loop(c)
        \/ Connect_Dial(c)
        \/ Connect_Reply(c)
        \/ Connect_Established(c)
        \/ CopyData_ClientToUpstream(c)
        \/ Relay_ClientToUpstream(c)
        \/ Relay_UpstreamToClient(c)
        \/ Connect_RelayEnd(c)

SpecTunnel == InitTunnel /\ [][NextTunnel]_vars

\* the forwarding path alone, for two concurrent connections
NextConc ==
    \/ Start_Listen
    \/ Start_Assign
    \/ Start_Accept
    \/ Start_AcceptError
    \/ Shutdown_CloseListener
    \/ Close_Lock
    \/ Close_Locked
    \/ Close_Clear
    \/ Shutdown_Exit
    \/ \E c \in Conns :
        \/ HandleConnection(c)
        \/ HTTP_Parse(c)
        \/ HTTP_Auth(c)
        \/ HTTP_Body(c)
        \/ Do_Loop(c)
        \/ GetClient_RLock(c)
        \/ GetClient_Read(c)
        \/ GetClient_Lock(c)
        \/ GetClient_Locked(c)
        \/ GetClient_Write(c)
        \/ Do_RoundTrip(c)
        \/ HTTP_Respond(c)

SpecConc == InitConc /\ [][NextConc]_vars

\* one client that sends a GET with ordinary, repeated and proxy headers
InitForward ==
    /\ authUsername = NoAuth.username /\ authPassword = NoAuth.password
    /\ arrivals = 1
    /\ env = [firstLines |-> {LineGet}, blocks |-> ForwardBlocks, early |-> {Empty}, wire |-> FALSE,
              responses |-> Responses]
    /\ InitCommon

SpecForward == InitForward /\ [][NextConc]_vars

\* the steps of Do, getClient and Close that need no peer to move: a runnable
\* goroutine is scheduled, a mutex that stays free is granted, and client.Do ends
\* by its response, its error or the client's Timeout
FairConc ==
    /\ WF_vars(Close_Lock) /\ WF_vars(Close_Locked) /\ WF_vars(Close_Clear)
    /\ \A c \in Conns :
          /\ WF_vars(Do_Loop(c)) /\ WF_vars(Do_RoundTrip(c))
          /\ WF_vars(GetClient_RLock(c)) /\ WF_vars(GetClient_Read(c))
          /\ WF_vars(GetClient_Lock(c)) /\ WF_vars(GetClient_Locked(c))
          /\ WF_vars(GetClient_Write(c))

\* two concurrent connections under a fair scheduler
SpecConcFair == SpecConc /\ FairConc

\* ------------------------------------------------------------------ NewPool, step by step

\* what the load leaves alone
serverVars == <<authUsername, authPassword, arrivals, env, poolVars, cacheVars, procVars,
                connVars>>

\* loadProxies: os.Open; an error is returned at once
LoadProxies_Open ==
    /\ loadpc = "open"
    /\ IF file.exists
       THEN loadpc' = "scan" /\ loaderr' = loaderr
       ELSE loadpc' = "returned" /\ loaderr' = "open"
    /\ UNCHANGED <<file, scanned, proxies, codec, serverVars>>

\* loadProxies: scanner.Scan() returns a line; it is skipped or appended
LoadProxies_Line ==
    /\ loadpc = "scan"
    /\ scanned < Len(file.lines)
    /\ LineLen(file.lines[scanned + 1]) < MaxScanTokenSize
    /\ LET line == TrimSpace(file.lines[scanned + 1].text)
       IN  proxies' = IF line = Empty \/ HasPrefix(line, <<35>>) \/ ParseProxy(line).err
                      THEN proxies
                      ELSE Append(proxies, ParseProxy(line).proxy)
    /\ scanned' = scanned + 1
    /\ UNCHANGED <<file, loadpc, loaderr, codec, serverVars>>

\* the NewPool check that builds an empty pool
NewPool_Return_NoEmptyCheck ==
    /\ loadpc = "returned"
    /\ IF loaderr # ""
       THEN loadpc' = "failed" /\ loaderr' = loaderr
       ELSE loadpc' = "built" /\ loaderr' = loaderr
    /\ UNCHANGED <<file, scanned, proxies, codec, serverVars>>

\* loadProxies: scanner.Scan() returns false, at the end of the file or at a line
\* that does not fit the scanner's buffer; loadProxies returns scanner.Err()
LoadProxies_Return ==
    /\ loadpc = "scan"
    /\ \/ scanned = Len(file.lines) /\ loaderr' = ""
       \/ /\ scanned < Len(file.lines)
          /\ LineLen(file.lines[scanned + 1]) >= MaxScanTokenSize
          /\ loaderr' = "token too long"
    /\ loadpc' = "returned"
    /\ UNCHANGED <<file, scanned, proxies, codec, serverVars>>

\* NewPool after loadProxies: the error, or the error of an empty pool, or the pool
NewPool_Return ==
    /\ loadpc = "returned"
    /\ IF loaderr # ""
       THEN loadpc' = "failed" /\ loaderr' = loaderr
       ELSE IF Len(proxies) = 0
       THEN loadpc' = "failed" /\ loaderr' = "no valid proxy"
       ELSE loadpc' = "built" /\ loaderr' = loaderr
    /\ UNCHANGED <<file, scanned, proxies, codec, serverVars>>

\* NewPool is called with a proxy list file
InitLoad ==
    /\ authUsername = NoAuth.username /\ authPassword = NoAuth.password
    /\ arrivals = 0
    /\ env = [firstLines |-> {LineGet}, blocks |-> {Empty}, early |-> {Empty}, wire |-> FALSE,
              responses |-> Responses]
    /\ file \in ProxyFiles
    /\ proxies = <<>>
    /\ loadpc = "open"
    /\ scanned = 0
    /\ loaderr = ""
    /\ codec = NoCodec
    /\ InitIdle

NextLoad ==
    \/ LoadProxies_Open
    \/ LoadProxies_Line
    \/ LoadProxies_Return
    \/ NewPool_Return

SpecLoad == InitLoad /\ [][NextLoad]_vars

\* ------------------------------------------------------------------ the auth package alone

\* the longest username and password
MaxCred == 3

\* the bytes of the usernames and passwords: 'a', ':' and 0xFF
CredBytes == {97, 58, 255}

RECURSIVE CredsOfLen(_)
CredsOfLen(n) ==
    IF n = 0 THEN {Empty} ELSE {<<b>> \o s : b \in CredBytes, s \in CredsOfLen(n - 1)}

\* the usernames and passwords a caller passes to EncodeBasicAuth
Creds == UNION {CredsOfLen(n) : n \in 0..MaxCred}

\* a caller encodes a pair
Codec_Encode ==
    /\ codec.pc = "start"
    /\ codec' = [codec EXCEPT !.pc = "encoded",
                              !.header = EncodeBasicAuth(codec.username, codec.password)]
    /\ UNCHANGED <<authUsername, authPassword, proxies, file, loadpc, scanned, loaderr,
                   serverVars>>

\* the caller decodes what it has encoded
Codec_Decode ==
    /\ codec.pc = "encoded"
    /\ codec' = [codec EXCEPT !.pc = "decoded",
                              !.result = DecodeBasicAuth(codec.header)]
    /\ UNCHANGED <<authUsername, authPassword, proxies, file, loadpc, scanned, loaderr,
                   serverVars>>

\* a caller holds a username and a password
InitCodec ==
    /\ authUsername = NoAuth.username /\ authPassword = NoAuth.password
    /\ arrivals = 0
    /\ env = [firstLines |-> {LineGet}, blocks |-> {Empty}, early |-> {Empty}, wire |-> FALSE,
              responses |-> Responses]
    /\ file = [exists |-> TRUE, lines |-> <<LineProxyA>>]
    /\ proxies = LoadProxies(file.lines)
    /\ scanned = 1
    /\ loadpc = "built"
    /\ loaderr = ""
    /\ \E u \in Creds, p \in Creds :
          codec = [NoCodec EXCEPT !.pc = "start", !.username = u, !.password = p]
    /\ InitIdle

NextCodec ==
    \/ Codec_Encode
    \/ Codec_Decode

SpecCodec == InitCodec /\ [][NextCodec]_vars

\* ------------------------------------------------------------------ DecodeBasicAuth alone

\* the longest text after "Basic " that is enumerated
MaxB64 == 4

\* the bytes of the enumerated texts: 'Y' 'T' 'o' 'Q' of the alphabet, '=', '!', '\n'
B64Bytes == {89, 84, 111, 81, 61, 33, 10}

RECURSIVE TextsOfLen(_)
TextsOfLen(n) ==
    IF n = 0 THEN {Empty} ELSE {<<b>> \o s : b \in B64Bytes, s \in TextsOfLen(n - 1)}

\* the header values a caller passes to DecodeBasicAuth: empty, without the prefix,
\* and the prefix followed by every short text and a few longer ones
DecodeInputs ==
    {Empty, <<66, 97, 115, 105, 99>>, <<98, 97, 115, 105, 99, 32, 89, 84, 111, 61>>, <<89, 84, 111, 61>>, <<32, 66, 97, 115, 105, 99, 32, 89, 84, 111, 61>>, <<66, 101, 97, 114, 101, 114, 32, 89, 84, 111, 61>>}
    \cup {BasicPrefix \o s : s \in UNION {TextsOfLen(n) : n \in 0..MaxB64}}
    \cup {BasicPrefix \o s : s \in {<<89, 84, 112, 105, 79, 109, 77, 61>>, <<89, 84, 111, 61, 89, 84, 111, 61>>, <<89, 84, 13, 10, 112, 105>>, <<89, 84, 112, 49>>}}

\* a caller holds a header value
InitDecode ==
    /\ authUsername = NoAuth.username /\ authPassword = NoAuth.password
    /\ arrivals = 0
    /\ env = [firstLines |-> {LineGet}, blocks |-> {Empty}, early |-> {Empty}, wire |-> FALSE,
              responses |-> Responses]
    /\ file = [exists |-> TRUE, lines |-> <<LineProxyA>>]
    /\ proxies = LoadProxies(file.lines)
    /\ scanned = 1
    /\ loadpc = "built"
    /\ loaderr = ""
    /\ \E h \in DecodeInputs : codec = [NoCodec EXCEPT !.pc = "encoded", !.header = h]
    /\ InitIdle

SpecDecode == InitDecode /\ [][Codec_Decode]_vars

\* ------------------------------------------------------------------ the replies the contract names

\* "HTTP/1.1 200 Connection Established" and a blank line
Reply200 ==
    <<72, 84, 84, 80, 47, 49, 46, 49, 32, 50, 48, 48, 32, 67, 111, 110, 110, 101, 99, 116,
    105, 111, 110, 32, 69, 115, 116, 97, 98, 108, 105, 115, 104, 101, 100, 13, 10, 13, 10>>

\* "HTTP/1.1 502 Bad Gateway" and a blank line
Reply502 ==
    <<72, 84, 84, 80, 47, 49, 46, 49, 32, 53, 48, 50, 32, 66, 97, 100, 32, 71, 97, 116, 101,
    119, 97, 121, 13, 10, 13, 10>>

\* "HTTP/1.1 407 "
Reply407Start ==
    <<72, 84, 84, 80, 47, 49, 46, 49, 32, 52, 48, 55, 32>>

\* the challenge header line of a 407
ProxyAuthenticate ==
    <<80, 114, 111, 120, 121, 45, 65, 117, 116, 104, 101, 110, 116, 105, 99, 97, 116, 101,
    58, 32, 66, 97, 115, 105, 99, 32, 114, 101, 97, 108, 109, 61, 34, 80, 114, 111, 120,
    121, 70, 108, 111, 119, 34, 13, 10>>

\* ------------------------------------------------------------------ the contract

IsConnect(c) == loc[c].firstLine # Empty /\ HasPrefix(loc[c].firstLine, ConnectPrefix)
IsHTTP(c) == loc[c].firstLine # Empty /\ ~HasPrefix(loc[c].firstLine, ConnectPrefix)
Configured == authUsername # Empty \/ authPassword # Empty
Presents(c, username, password) ==
    LET decoded == DecodeBasicAuth(loc[c].authHeader)
    IN  ~decoded.err /\ decoded.username = username /\ decoded.password = password
Checked(c) == loc[c].auth # "unchecked"

\* C1: NextProxy calls are serialized by the atomic add; on a pool of N proxies
\* every run of N consecutive calls returns each of the N proxies exactly once.
C1_RoundRobin ==
    \A k \in 1..(Len(selections) - Size + 1) :
        /\ {selections[j] : j \in k..(k + Size - 1)} = 0..(Size - 1)
        /\ \A a, b \in k..(k + Size - 1) : selections[a] = selections[b] => a = b

\* two full rounds over a pool of at least two proxies
C1_Witness == Size >= 2 /\ Len(selections) >= 2 * Size

\* C2, as stated: no host ever has a second client constructed for it.
C2_OneClientEver ==
    \A a, b \in 1..Len(created) : created[a].host = created[b].host => a = b

\* C2: between two runs of Close() at most one client is constructed per host,
\* whatever the interleaving of the lookups, re-checks and inserts of concurrent Do
\* calls, and until Close() runs all requests that use a host hold the same client.
C2_OneClientPerHost ==
    /\ \A a, b \in 1..Len(created) :
          created[a].host = created[b].host /\ created[a].gen = created[b].gen => a = b
    /\ \A c \in Conns :
          pc[c] \in {"roundtrip", "respond"} =>
              \E a \in 1..Len(created) :
                  /\ created[a].id = loc[c].client.id
                  /\ created[a].host = proxies[loc[c].proxy + 1].host
    /\ closes = 0 =>
          \A c, d \in Conns :
              /\ pc[c] \in {"roundtrip", "respond"}
              /\ pc[d] \in {"roundtrip", "respond"}
              /\ proxies[loc[c].proxy + 1].host = proxies[loc[d].proxy + 1].host
              => loc[c].client = loc[d].client

\* a request missed the host under the read lock and finds it under the write lock
C2_Witness ==
    \E c \in Conns :
        /\ pc[c] = "gc_write"
        /\ proxies[loc[c].proxy + 1].host \in DOMAIN clients
        /\ closes = 0

C5_NoCredentialsNoOwn407 ==
    ~Configured =>
        \A c \in Conns :
            /\ loc[c].auth # "fail"
            /\ out[c] # AuthRequired
            /\ HasPrefix(out[c], Reply407Start) =>
                  /\ loc[c].result = "ok"
                  /\ loc[c].resp = Response407
            /\ pc[c] \notin {"idle", "first", "connect", "http", "connect_auth",
                             "http_auth", "done", "panic"} => loc[c].auth = "pass"

\* C5 as stated: with no username and no password configured every request passes
\* the auth check and no output of the server ever holds a 407.
C5_NoCredentialsAlwaysPass ==
    ~Configured =>
        \A c \in Conns :
            /\ loc[c].auth # "fail"
            /\ ~HasPrefix(out[c], Reply407Start)
            /\ ~Contains(out[c], ProxyAuthenticate)
            /\ pc[c] \notin {"idle", "first", "connect", "http", "connect_auth",
                             "http_auth", "done", "panic"} => loc[c].auth = "pass"

\* a request with an undecodable Proxy-Authorization value has passed
C5_Witness ==
    \E c \in Conns :
        /\ ~Configured
        /\ loc[c].auth = "pass"
        /\ loc[c].authHeader # Empty
        /\ DecodeBasicAuth(loc[c].authHeader).err

\* C6: the handler parses, then checks auth, then dispatches: a connection whose
\* auth check fails has called NextProxy never and dialled nothing, and the pool
\* cursor and the client cache are as they were; only a connection that passed the
\* check selects a proxy, dials, obtains a client or gets a result.
C6_AuthBeforeDispatch ==
    \A c \in Conns :
        /\ loc[c].auth = "fail" =>
              /\ pc[c] = "done"
              /\ loc[c].nextCalls = 0 /\ loc[c].dials = 0
              /\ loc[c].up = "none" /\ loc[c].client = NoClient
              /\ loc[c].result = "none"
              /\ current = 0 /\ selections = <<>>
              /\ clients = <<>> /\ created = <<>>
        /\ Checked(c) => loc[c].firstLine # Empty
        /\ \/ loc[c].nextCalls > 0 \/ loc[c].dials > 0 \/ loc[c].up # "none"
           \/ loc[c].client # NoClient \/ loc[c].result # "none"
           => loc[c].auth = "pass"

\* a CONNECT request was refused
C6_Witness ==
    \E c \in Conns : IsConnect(c) /\ loc[c].auth = "fail" /\ pc[c] = "done"

\* C7: once an attempt's handshake has succeeded the CONNECT handler tries no other
\* proxy, the first bytes it writes to the client are exactly the 200 Connection
\* Established line and a blank line, and it relays only after it wrote them.
C7_EstablishedThenRelay ==
    \A c \in Conns :
        IsConnect(c) =>
            /\ loc[c].result = "ok" =>
                  /\ pc[c] \in {"connect_ok", "relay", "done", "panic"}
                  /\ loc[c].nextCalls = loc[c].failed + 1
                  /\ loc[c].dials = loc[c].nextCalls
                  /\ out[c] \in {Empty, Reply200}
            /\ pc[c] = "connect_ok" => out[c] = Empty
            /\ pc[c] = "relay" => loc[c].result = "ok" /\ out[c] = Reply200

\* the second attempt succeeded and the tunnel relays
C7_Witness ==
    \E c \in Conns :
        IsConnect(c) /\ pc[c] = "relay" /\ loc[c].failed = 1 /\ loc[c].nextCalls = 2

\* C8: the CONNECT handler makes at most Size attempts, one NextProxy call each;
\* when all of them failed it has written exactly the 502 Bad Gateway line and a
\* blank line, not the 200 reply, and it has returned.
C8_ConnectExhaustion ==
    \A c \in Conns :
        IsConnect(c) =>
            /\ loc[c].nextCalls <= Size
            /\ loc[c].dials <= loc[c].nextCalls
            /\ loc[c].failed <= loc[c].nextCalls
            /\ loc[c].result = "fail" =>
                  /\ loc[c].nextCalls = Size /\ loc[c].failed = Size
                  /\ out[c] = Reply502
                  /\ pc[c] = "done"
                  /\ loc[c].up # "open"
            /\ loc[c].failed = Size /\ pc[c] = "done" => loc[c].result = "fail"

\* both proxies of a pool of two failed
C8_Witness ==
    \E c \in Conns :
        IsConnect(c) /\ Size = 2 /\ loc[c].result = "fail" /\ loc[c].dials = 2

\* C9: Do calls NextProxy at most Size times, returns at the first attempt that
\* executed without error, and fails only after Size failed iterations; the HTTP
\* handler then writes exactly the 502 Bad Gateway line and a blank line.
C9_DoFailover ==
    \A c \in Conns :
        IsHTTP(c) =>
            /\ loc[c].nextCalls <= Size
            /\ loc[c].failed <= loc[c].nextCalls
            /\ loc[c].result = "ok" =>
                  /\ loc[c].nextCalls = loc[c].failed + 1
                  /\ pc[c] \in {"respond", "done", "panic"}
            /\ loc[c].result = "fail" =>
                  /\ loc[c].nextCalls = Size /\ loc[c].failed = Size
                  /\ out[c] = Reply502
                  /\ pc[c] = "done"
            /\ loc[c].failed = Size => pc[c] \in {"do_loop", "done"}

\* Do succeeded on its second attempt
C9_Witness ==
    \E c \in Conns :
        IsHTTP(c) /\ loc[c].result = "ok" /\ loc[c].failed = 1 /\ loc[c].nextCalls = 2

\* the bytes the contract promises for a response, the header keys in some order
ResponseBytes(resp) ==
    {HTTP11 \o Itoa(resp.StatusCode) \o rest \o HeaderLines(resp.Header, order)
         \o CRLF \o resp.Body :
       rest \in {<<32>> \o Drop(resp.Status, Len(Itoa(resp.StatusCode)) + 1) \o CRLF,
                 CRLF},
       order \in Orders(Len(resp.Header))}

\* C10: once Do has succeeded and the handler is through, the client has got the
\* status line with the upstream's code, every header value, a blank line and the
\* body bytes, in this order.
C10_ResponseRelayed ==
    \A c \in Conns :
        IsHTTP(c) /\ loc[c].result = "ok" /\ pc[c] \in {"done", "panic"} =>
            out[c] \in ResponseBytes(loc[c].resp)

\* C11: once Close() has run, the idle connections of every client that was in
\* the cache when it ran are closed, whether the client's upstream has credentials
\* or not, and the cache holds nothing that was in it before Close() ran.
C11_CloseClosesEveryClient ==
    closes > 0 =>
        /\ \A a \in 1..Len(created) :
              created[a].gen < closes => created[a].id \in idleClosed
        /\ \A h \in DOMAIN clients :
              \E a \in 1..Len(created) :
                  created[a].id = clients[h].id /\ created[a].gen = closes

\* C12: Close() runs concurrently with in-flight Do calls without deadlock: while
\* the process lives a Close() that was called returns, a request that is being
\* executed ends, Close() leaves the handlers and the clients they hold alone, and
\* no handler holds the cache lock, for reading or writing, while its request
\* is being executed.
C12_CloseConcurrentWithDo ==
    /\ [](\A c \in Conns :
            pc[c] = "roundtrip" =>
                /\ c \notin mux.r /\ mux.w # c
                /\ loc[c].client # NoClient)
    /\ [][sdpc # sdpc' => UNCHANGED <<pc, loc, out>>]_vars
    /\ (sdpc = "close_lock") ~> (sdpc = "exit" \/ ~alive)
    /\ \A c \in Conns : (pc[c] = "roundtrip") ~> (pc[c] # "roundtrip" \/ ~alive)

\* Close() waits for the lock while one Do reads the cache and another Do is
\* executing its request
C12_Witness ==
    \E c, d \in Conns :
        /\ sdpc = "close_wait" /\ alive
        /\ pc[c] = "roundtrip"
        /\ pc[d] = "gc_read" /\ d \in mux.r

\* C13: once Shutdown() has returned the accept loop accepts no connection, however
\* Shutdown() interleaves with Start(), and no step of Shutdown() changes anything
\* of a connection that was accepted before.
C13_NoAcceptAfterShutdown ==
    /\ [][(sdpc = "exit" \/ sdpc = "exited") => accepted' = accepted]_vars
    /\ [][sdpc' # sdpc /\ sdpc' # "exited" => UNCHANGED <<pc, loc, out>>]_vars

RECURSIVE SumNextCalls(_)
\* the NextProxy calls the handlers in S have made
SumNextCalls(S) ==
    IF S = {} THEN 0
    ELSE LET c == CHOOSE x \in S : TRUE
         IN  loc[c].nextCalls + SumNextCalls(S \ {c})

\* C14: whatever the interleaving of concurrent NextProxy callers, the k-th call in
\* the order of the atomic adds obtains the counter value k and no other call
\* obtains it, so any N consecutive selections on a pool of N are N distinct proxies.
C14_NoDuplicateCounterValue ==
    /\ current = Len(selections)
    /\ Len(selections) = SumNextCalls(Conns)
    /\ \A k \in 1..Len(selections) : selections[k] = k % Size
    /\ \A a, b \in 1..Len(selections) :
          a < b /\ b - a < Size => selections[a] # selections[b]

\* two handlers are both inside their failover loops and have both selected
C14_Witness ==
    /\ Size >= 2
    /\ \A c \in Conns :
          /\ loc[c].nextCalls >= 1
          /\ pc[c] \in {"gc_rlock", "gc_read", "gc_lock", "gc_lockwait", "gc_write",
                        "roundtrip", "do_loop"}
    /\ \E c \in Conns : loc[c].nextCalls >= 2

\* C15: in an established tunnel, once the copy from either side has ended (that
\* side reached end-of-stream or failed) the handler relays no longer and the
\* client socket and the upstream socket are closed.
C15_EitherSideEndsTunnel ==
    \A c \in Conns :
        IsConnect(c) /\ loc[c].result = "ok" /\ alive =>
            /\ loc[c].c2u = "returned" => pc[c] = "done" /\ loc[c].up = "closed"
            /\ pc[c] = "done" => loc[c].up = "closed"

\* "HTTP/1.1 400 Bad Request" and a blank line
Reply400 ==
    <<72, 84, 84, 80, 47, 49, 46, 49, 32, 52, 48, 48, 32, 66, 97, 100, 32, 82, 101, 113,
    117, 101, 115, 116, 13, 10, 13, 10>>

\* the handler of c has answered 400, has returned and has used no upstream
Rejected400(c) ==
    /\ pc[c] = "done"
    /\ out[c] = Reply400
    /\ loc[c].nextCalls = 0 /\ loc[c].dials = 0
    /\ loc[c].up = "none" /\ loc[c].client = NoClient
    /\ loc[c].result = "none"
    /\ current = 0 /\ selections = <<>> /\ created = <<>>

\* C16: a CONNECT line with fewer than 2 fields, any other request line with fewer
\* than 3 fields, and, after auth has passed in the HTTP branch, a body that ends
\* before Content-Length bytes each get exactly the 400 Bad Request line and a
\* blank line; the handler returns and no upstream is selected or contacted.
C16_BadRequest ==
    \A c \in Conns :
        /\ IsConnect(c) /\ NumFields(loc[c].firstLine) < 2 /\ pc[c] # "connect"
              => Rejected400(c) /\ ~Checked(c)
        /\ IsHTTP(c) /\ NumFields(loc[c].firstLine) < 3 /\ pc[c] # "http"
              => Rejected400(c) /\ ~Checked(c)
        /\ loc[c].bodyRead = "short"
              => Rejected400(c) /\ IsHTTP(c) /\ loc[c].auth = "pass"

\* credentials are configured, the request passed the check and its body ended early
C16_Witness ==
    \E c \in Conns :
        /\ Configured
        /\ loc[c].auth = "pass"
        /\ loc[c].bodyRead = "short"
        /\ out[c] = Reply400

\* a received line is a header line when a ':' follows at least one byte
IsHeaderLine(line) == IndexByte(TrimSpace(line), 58) > 0
HeaderName(line) ==
    ToLower(TrimSpace(Take(TrimSpace(line), IndexByte(TrimSpace(line), 58))))
HeaderValue(line) ==
    TrimSpace(Drop(TrimSpace(line), IndexByte(TrimSpace(line), 58) + 1))

\* C17: the request handed to Do carries every header received from the client
\* whose name is not proxy-authorization or proxy-connection in any letter case,
\* carries nothing else, and carries neither of these two.
C17_HeadersForwarded ==
    \A c \in Conns :
        loc[c].req # NoRequest =>
            /\ \A k \in 1..Len(loc[c].lines) :
                  /\ IsHeaderLine(loc[c].lines[k])
                  /\ HeaderName(loc[c].lines[k]) \notin {ProxyAuthorization, ProxyConnection}
                  => \E h \in DOMAIN loc[c].req.headers :
                        /\ h = HeaderName(loc[c].lines[k])
                        /\ loc[c].req.headers[h] = HeaderValue(loc[c].lines[k])
            /\ \A h \in DOMAIN loc[c].req.headers :
                  /\ h \notin {ProxyAuthorization, ProxyConnection}
                  /\ \E k \in 1..Len(loc[c].lines) :
                        /\ IsHeaderLine(loc[c].lines[k])
                        /\ h = HeaderName(loc[c].lines[k])
                        /\ loc[c].req.headers[h] = HeaderValue(loc[c].lines[k])

\* a line the load counts: not blank, not a comment, parsed with scheme http or https
ValidLine(l) ==
    LET line == TrimSpace(l.text)
    IN  line # Empty /\ ~HasPrefix(line, <<35>>) /\ ~ParseProxy(line).err

\* the proxies of the valid lines of a file, in file order
ValidProxies(f) ==
    LET valid == SelectSeq(f, ValidLine)
    IN  [k \in 1..Len(valid) |-> ParseProxy(TrimSpace(valid[k].text)).proxy]

\* C18: the pool NewPool builds from a proxy list file holds the proxies of the valid
\* lines (not blank, no leading '#', scheme http or https), in file order, so Size()
\* is their number; and no line aborts the load: when loadProxies has returned for a
\* file it could open, every line has been scanned.
C18_ValidLinesLoaded ==
    /\ loadpc = "built" =>
          /\ proxies = ValidProxies(file.lines)
          /\ Size = Len(SelectSeq(file.lines, ValidLine))
    /\ (file.exists /\ loadpc \in {"returned", "built", "failed"}) =>
          scanned = Len(file.lines)

\* C19: NewPool never returns an empty pool: a pool that was built has Size() >= 1 and
\* no error, and when NewPool has returned for a file without a valid line it has
\* failed with an error and built no pool.
C19_NoEmptyPool ==
    /\ loadpc = "built" => (Size >= 1 /\ loaderr = "")
    /\ (loadpc \in {"built", "failed"} /\ SelectSeq(file.lines, ValidLine) = <<>>) =>
          (loadpc = "failed" /\ loaderr # "")

\* a file of two lines, none of them valid, was scanned to its end and NewPool failed
C19_Witness ==
    /\ loadpc = "failed"
    /\ loaderr = "no valid proxy"
    /\ file.exists /\ Len(file.lines) = 2 /\ scanned = 2
    /\ proxies = <<>>

\* C20, as stated: for every username without ':' and every password,
\* Decode(Encode(u, p)) returns (u, p).
C20_RoundTrip ==
    (codec.pc = "decoded" /\ IndexByte(codec.username, 58) < 0) =>
        codec.result =
            [err |-> FALSE, username |-> codec.username, password |-> codec.password]

\* C20: for every username that is not empty and holds no ':', and every password
\* (also one that holds ':' or is empty), Decode(Encode(u, p)) returns (u, p)
\* without an error.
C20_RoundTripForNonEmptyUser ==
    (/\ codec.pc = "decoded"
     /\ codec.username # Empty
     /\ IndexByte(codec.username, 58) < 0) =>
        codec.result =
            [err |-> FALSE, username |-> codec.username, password |-> codec.password]

\* the pair ("a", "::") was encoded and decoded, and came back
C20_Witness ==
    /\ codec.pc = "decoded"
    /\ codec.username = <<97>>
    /\ codec.password = <<58, 58>>
    /\ codec.header # Empty
    /\ codec.result = [err |-> FALSE, username |-> <<97>>, password |-> <<58, 58>>]

\* padded base64 text (RFC 4648), line breaks aside: whole groups of four bytes of the
\* alphabet, the last group ending in at most two '='
IsBase64Text(s) ==
    LET text == SelectSeq(s, NotNewline)
    IN  /\ Len(text) % 4 = 0
        /\ \A k \in 1..Len(text) :
              \/ B64Value(text[k]) >= 0
              \/ /\ text[k] = PadChar
                 /\ \/ k = Len(text)
                    \/ k = Len(text) - 1 /\ text[Len(text)] = PadChar

\* C21: DecodeBasicAuth fails, with no username and no password, exactly when the
\* value is empty, or lacks the prefix "Basic ", or the rest is not valid base64, or
\* the decoded text holds no ':'; otherwise it succeeds and returns the text before
\* the first ':' and the text after it.
C21_DecodeFailsExactly ==
    codec.pc = "decoded" =>
        LET rest  == Drop(codec.header, Len(BasicPrefix))
            text  == B64Decode(rest).bytes
            fails == \/ codec.header = Empty
                     \/ ~HasPrefix(codec.header, BasicPrefix)
                     \/ ~IsBase64Text(rest)
                     \/ IndexByte(text, 58) < 0
        IN  /\ codec.result.err <=> fails
            /\ codec.result.err =>
                  codec.result.username = Empty /\ codec.result.password = Empty
            /\ ~codec.result.err =>
                  /\ codec.result.username \o <<58>> \o codec.result.password = text
                  /\ IndexByte(codec.result.username, 58) < 0

\* "Basic YQ==" is valid base64 of "a", which holds no ':': the decoder has failed
C21_Witness ==
    /\ codec.pc = "decoded"
    /\ codec.header = BasicPrefix \o <<89, 81, 61, 61>>
    /\ B64Decode(<<89, 81, 61, 61>>) = [err |-> FALSE, bytes |-> <<97>>]
    /\ codec.result = [err |-> TRUE, username |-> Empty, password |-> Empty]

\* a host in host:port form: a name that is not empty, ':', and a port of digits
IsHostPort(host) ==
    LET colon == LastIndexByte(host, 58)
    IN  /\ colon > 0
        /\ colon + 1 < Len(host)
        /\ \A k \in (colon + 2)..Len(host) : IsDigit(host[k])

C23_CacheOnlyGrows ==
    /\ [][closes' = closes =>
            \A h \in DOMAIN clients : h \in DOMAIN clients' /\ clients'[h] = clients[h]]_vars
    /\ [][\A c \in Conns :
            (pc[c] \in {"gc_read", "gc_write"} /\ pc'[c] = "roundtrip") =>
                LET proxyKey == proxies[loc[c].proxy + 1].host
                IN  /\ proxyKey \in DOMAIN clients =>
                          /\ loc'[c].client = clients[proxyKey]
                          /\ created' = created
                    /\ proxyKey \notin DOMAIN clients =>
                          /\ proxyKey \in DOMAIN clients'
                          /\ loc'[c].client = clients'[proxyKey]
                          /\ Len(created') = Len(created) + 1]_vars

\* the cache holds two hosts; one connection has been given, by the lookup under the
\* read lock, the client that the other connection built, and Close() has not run
C23_Witness ==
    /\ closes = 0
    /\ Cardinality(DOMAIN clients) = 2
    /\ Len(created) = 2
    /\ \E c, d \in Conns :
          /\ c # d
          /\ pc[c] = "roundtrip" /\ pc[d] \in {"roundtrip", "respond", "done"}
          /\ loc[c].client = loc[d].client
          /\ loc[c].client = clients[proxies[loc[c].proxy + 1].host]
          /\ loc[c].nextCalls = 1

\* the NextProxy calls of handler c followed one another with no call of another
\* handler in between
Undisturbed(c) ==
    \A k \in 1..(Len(loc[c].tried) - 1) : loc[c].tried[k + 1].n = loc[c].tried[k].n + 1

\* the indexes of the proxies handler c was given
TriedProxies(c) == {loc[c].tried[k].proxy : k \in 1..Len(loc[c].tried)}

C25_SuccessIffChunkHolds200 ==
    /\ [][\A c \in Conns :
            (pc'[c] = "connect_ok" /\ pc[c] # "connect_ok") =>
                /\ pc[c] = "connect_reply" /\ loc[c].up = "open"
                /\ Contains(loc'[c].chunk, Lit200)
                /\ loc'[c].up = "open"]_vars
    /\ [][\A c \in Conns :
            (pc[c] = "connect_reply" /\ pc'[c] # "connect_reply") =>
                /\ pc'[c] \in {"connect_ok", "connect_loop"}
                /\ pc'[c] = "connect_loop" =>
                      /\ ~Contains(loc'[c].chunk, Lit200)
                      /\ loc'[c].up = "closed"
                      /\ loc'[c].failed = loc[c].failed + 1]_vars

\* an upstream answered 407 with "Content-Length: 200" and the attempt succeeded
C25_Witness ==
    \E c \in Conns :
        /\ pc[c] = "connect_ok"
        /\ loc[c].chunk = ChunkAuthLength200
        /\ ~HasPrefix(loc[c].chunk, StatusLine200)
        /\ loc[c].result = "ok" /\ loc[c].up = "open"

RECURSIVE SplitCRLF(_)
\* the lines of a text whose lines end in "\r\n"
SplitCRLF(s) ==
    LET ends == {k \in 1..(Len(s) - 1) : s[k] = 13 /\ s[k + 1] = 10}
    IN  IF ends = {} THEN <<s>>
        ELSE LET k == CHOOSE x \in ends : \A y \in ends : x <= y
             IN  <<Take(s, k - 1)>> \o SplitCRLF(Drop(s, k + 1))

\* the Proxy-Authorization header lines of a request, whatever the case of the name
AuthorizationLines(request) ==
    SelectSeq(SplitCRLF(request),
              LAMBDA line : HasPrefix(ToLower(line), ProxyAuthorizationColon))

\* C26: the probe written to an upstream holds a Proxy-Authorization header exactly
\* when that upstream has a username that is not empty; there is one such line then,
\* and it is "Proxy-Authorization: Basic " and base64(username ":" password) of
\* that upstream.
C26_ProbeAuthorization ==
    \A c \in Conns :
        pc[c] = "connect_reply" =>
            LET proxy == proxies[loc[c].proxy + 1]
                auth  == AuthorizationLines(loc[c].probe)
            IN  /\ HasPrefix(loc[c].probe, ConnectPrefix)
                /\ (Len(auth) > 0) <=> (proxy.username # Empty)
                /\ proxy.username # Empty =>
                      auth = <<ProbeAuthorization \o BasicPrefix
                               \o B64Encode(proxy.username \o <<58>> \o proxy.password)>>

\* a probe went to the upstream "http://u@b:8080", with "Basic dTo=", base64 of "u:"
C26_Witness ==
    \E c \in Conns :
        /\ pc[c] = "connect_reply"
        /\ proxies[loc[c].proxy + 1].username = <<117>>
        /\ proxies[loc[c].proxy + 1].password = Empty
        /\ AuthorizationLines(loc[c].probe)
              = <<ProbeAuthorization \o BasicPrefix \o <<100, 84, 111, 61>>>>

\* C27: a proxy with an empty host that NextProxy returns is never handed to
\* getClient and no request goes through it: no client is built or cached for the
\* empty host; and the call that returned it still uses up one iteration of Do.
C27_SentinelSkipped ==
    /\ [](/\ \A a \in 1..Len(created) : created[a].host # Empty
          /\ Empty \notin DOMAIN clients
          /\ \A c \in Conns :
                pc[c] \in {"gc_rlock", "gc_read", "gc_lock", "gc_lockwait", "gc_write",
                           "roundtrip"} =>
                    proxies[loc[c].proxy + 1].host # Empty)
    /\ [][\A c \in Conns :
            (/\ pc[c] = "do_loop"
             /\ loc'[c].nextCalls = loc[c].nextCalls + 1
             /\ proxies[loc'[c].proxy + 1].host = Empty) =>
                /\ loc'[c].i = loc[c].i + 1
                /\ pc'[c] = "do_loop"
                /\ loc'[c].client = loc[c].client
                /\ UNCHANGED <<clients, created>>]_vars
    /\ [](\A c \in Conns : IsHTTP(c) => loc[c].nextCalls <= Size)

\* Do failed through the first proxy it was given; the second has no host: Do
\* skipped it, built no client for it, and with both iterations used up the
\* handler has sent 502
C27_Witness ==
    \E c \in Conns :
        /\ IsHTTP(c) /\ Size = 2
        /\ Len(loc[c].tried) = 2
        /\ proxies[loc[c].tried[1].proxy + 1].host # Empty
        /\ proxies[loc[c].tried[2].proxy + 1].host = Empty
        /\ loc[c].i = 2 /\ loc[c].failed = 2
        /\ Len(created) = 1
        /\ pc[c] = "done" /\ out[c] = Reply502

\* the proxy Do returns with a response: the one of its last NextProxy call
UsedProxy(c) == proxies[loc[c].tried[Len(loc[c].tried)].proxy + 1]

\* C28: when Do has succeeded, the proxy it returns is the proxy the client that
\* produced the response was built for: same host, scheme, username and password.
C28_UsedProxyIsClientsProxy ==
    \A c \in Conns :
        (IsHTTP(c) /\ loc[c].result = "ok") =>
            /\ loc[c].client.host = UsedProxy(c).host
            /\ loc[c].client.scheme = UsedProxy(c).scheme
            /\ loc[c].client.username = UsedProxy(c).username
            /\ loc[c].client.password = UsedProxy(c).password

\* a well-formed non-negative integer: decimal digits and nothing else
WellFormedLength(value) ==
    value # Empty /\ \A k \in 1..Len(value) : IsDigit(value[k])

\* the request of connection c has a Content-Length header and its value is not a
\* well-formed non-negative integer
MalformedLength(c) ==
    \E k \in 1..Len(loc[c].lines) :
        /\ IsHeaderLine(loc[c].lines[k])
        /\ HeaderName(loc[c].lines[k]) = ContentLength
        /\ ~WellFormedLength(HeaderValue(loc[c].lines[k]))

\* C29: an HTTP request whose Content-Length value is not a well-formed
\* non-negative integer is handled as one without a body: the parsed length does
\* not let a body be read, no body is read, no 400 is sent, and the request handed
\* to Do has no body.
C29_MalformedLengthIsZero ==
    \A c \in Conns :
        (IsHTTP(c) /\ MalformedLength(c)) =>
            /\ pc[c] = "http_body" => loc[c].contentLength <= 0
            /\ loc[c].bodyRead = "none"
            /\ out[c] # Reply400
            /\ loc[c].req # NoRequest => loc[c].req.body = Empty

\* ---------------------------------------------------------------------------
\* C30: a handler whose upstream accepted the dial and stays silent never leaves
\* the read of the probe reply: it selects no further proxy and writes nothing
\* to the client, in every step the program takes.

BlockedOnProbe(c) == pc[c] = "connect_reply" /\ loc[c].silent

C30_SilentUpstreamBlocks ==
    [][\A c \in Conns :
         BlockedOnProbe(c) =>
            /\ pc'[c] = "connect_reply"
            /\ loc'[c] = loc[c]
            /\ out'[c] = out[c]]_vars

\* a handler is blocked on a silent first upstream while the pool still holds a
\* proxy it has not tried and the client has been sent nothing
C30_Witness ==
    \E c \in Conns :
        /\ BlockedOnProbe(c)
        /\ alive
        /\ loc[c].i = 0 /\ Size > 1
        /\ out[c] = Empty

\* ---------------------------------------------------------------------------
\* C31: a handler writes to its client at most once, and what it writes starts
\* with one status line: the 400, 407, 502 or 200 Connection Established reply,
\* or the status line of the upstream's response. Once it has written, it selects
\* no further proxy, dials nothing and builds no client: the only steps left are
\* the relay and the return that closes the sockets.

ProxyReplies == {Reply400, AuthRequired, Reply502, Reply200}

ResponseStarted(c) == out[c] # Empty

C31_OneStatusLine ==
    [][\A c \in Conns :
         /\ out'[c] # out[c] =>
               /\ out[c] = Empty
               /\ \/ out'[c] \in ProxyReplies
                  \/ /\ IsHTTP(c) /\ loc[c].result = "ok"
                     /\ HasPrefix(out'[c], StatusLine(loc[c].resp))
         /\ ResponseStarted(c) =>
               /\ loc'[c].nextCalls = loc[c].nextCalls
               /\ loc'[c].dials = loc[c].dials
               /\ loc'[c].client = loc[c].client
               /\ pc'[c] \in {"relay", "done"}]_vars

\* a tunnel that was established on the second attempt has ended: the client got
\* the one 200 reply and both sockets are closed
C31_Witness ==
    \E c \in Conns :
        /\ IsConnect(c) /\ pc[c] = "done"
        /\ out[c] = Reply200
        /\ loc[c].failed = 1
        /\ loc[c].up = "closed"

\* ---------------------------------------------------------------------------
\* C32: what the handler has written to the upstream after the probe is always a
\* leading part of what the client has sent after the blank line of its request,
\* the bytes held in the buffered reader included, and what it has written to
\* the client after its 200 reply is always a leading part of what the upstream
\* has sent after its CONNECT reply: no byte is left out, doubled or reordered.

IsLeadingPart(s, t) == Len(s) <= Len(t) /\ Take(t, Len(s)) = s

C32_TunnelBytesInOrder ==
    \A c \in Conns :
        IsConnect(c) =>
            /\ IsLeadingPart(loc[c].toUpstream, loc[c].clientSent)
            /\ IsLeadingPart(loc[c].toClient, loc[c].upstreamSent)

\* ---------------------------------------------------------------------------
\* C33: every request Do sends to an upstream carries either no
\* Proxy-Authorization header or the encoded credentials of that upstream itself,
\* also on the attempts that follow a failed one.

OwnCredentials(proxy) == EncodeBasicAuth(proxy.username, proxy.password)

C33_OnlyOwnCredentials ==
    \A c \in Conns :
        \A k \in 1..Len(loc[c].sent) :
            LET proxy   == proxies[loc[c].sent[k].proxy + 1]
                headers == loc[c].sent[k].headers
            IN  ProxyAuthorization \in DOMAIN headers =>
                    /\ proxy.username # Empty
                    /\ headers[ProxyAuthorization] = OwnCredentials(proxy)

\* ---------------------------------------------------------------------------
\* C34: whenever Do is about to run the request for the proxy NextProxy gave it,
\* the client getClient handed out has that proxy's scheme, username and
\* password, also when the pool holds another entry with the same host:port.

C34_ClientOfOwnProxy ==
    \A c \in Conns :
        pc[c] = "roundtrip" =>
            LET proxy == proxies[loc[c].proxy + 1]
            IN  /\ loc[c].client.scheme = proxy.scheme
                /\ loc[c].client.username = proxy.username
                /\ loc[c].client.password = proxy.password

\* ---------------------------------------------------------------------------
\* C35: every request that one Do call writes to an upstream carries all the
\* body bytes its Content-Length announces, on the first attempt and on each
\* attempt after a failed one.

C35_EveryAttemptSendsBody ==
    \A c \in Conns :
        \A k \in 1..Len(loc[c].sent) :
            Len(loc[c].sent[k].body) = loc[c].sent[k].contentLength

\* ---------------------------------------------------------------------------
\* C36: no handler ever panics: for every request a client sends and every
\* response an upstream returns the handler runs to its return, and the process
\* is not ended by a handler.

C36_NoHandlerPanics ==
    \A c \in Conns : pc[c] # "panic"

\* ---------------------------------------------------------------------------
\* C37: every index NextProxy computes lies in 0..Size-1, whatever the value of
\* the 64-bit counter, the values after the wrap from 2^63 - 1 to -2^63 included.

C37_IndexInRange ==
    \A k \in 1..Len(selections) : selections[k] >= 0 /\ selections[k] < Size

\* ---------------------------------------------------------------------------
\* C38: a handler that has returned has closed the client socket and has no
\* upstream socket open; a CONNECT handler that is about to select or dial the
\* next proxy has closed the socket of the attempt that failed.

NoUpstreamOpen(c) == loc[c].up \in {"none", "closed"}

C38_SocketsClosed ==
    \A c \in Conns :
        /\ pc[c] = "done" => loc[c].conn = "closed" /\ NoUpstreamOpen(c)
        /\ pc[c] \in {"connect_loop", "connect_dial"} => NoUpstreamOpen(c)
        /\ pc[c] \notin {"idle", "done"} => loc[c].conn = "open"

\* every attempt of a CONNECT reached its upstream and was refused: the handler
\* answered 502 and returned with the last upstream socket and the client socket
\* closed
C38_Witness ==
    \E c \in Conns :
        /\ IsConnect(c) /\ pc[c] = "done"
        /\ Size = 2 /\ loc[c].failed = 2
        /\ loc[c].chunk = ChunkForbidden
        /\ loc[c].up = "closed" /\ loc[c].conn = "closed"

\* ---------------------------------------------------------------------------
\* C39: once an upstream has returned an HTTP response to a request of Do,
\* whatever its status code, Do tries no further proxy, and the handler that
\* returns has relayed that response to the client: its status line with the
\* upstream's code, its headers and its body.

Answered(c) == loc[c].answer # NoResponse

C39_AnyResponseIsRelayed ==
    /\ [](\A c \in Conns :
            Answered(c) /\ pc[c] = "done" => out[c] \in ResponseBytes(loc[c].answer))
    /\ [][\A c \in Conns :
            Answered(c) =>
                /\ loc'[c].nextCalls = loc[c].nextCalls
                /\ loc'[c].answer = loc[c].answer]_vars

====
